---------------------------- MODULE Spec2Model ----------------------------
(***************************************************************************)
(* A model of the ConTeXt structural analysis engine (jethro-djan/         *)
(* ctx-runtime): the nom parser of src/src/parser.rs, the concrete tree    *)
(* builder of src/src/syntax.rs, the highlighter of src/src/highlight.rs,  *)
(* the diagnostics and document store of src/src/runtime.rs and the        *)
(* thread-shared session handle of src/src/ffi.rs.                         *)
(*                                                                         *)
(* Text is a sequence of one-character strings.  A nom LocatedSpan is the  *)
(* record [src, pos]: src is the text the span was created on with         *)
(* Span::new, pos the number of bytes already consumed (location_offset);  *)
(* the fragment is the rest of src from pos.                               *)
(***************************************************************************)
EXTENDS Integers, Sequences, FiniteSets, TLC

VARIABLES
    text,        \* parser pipeline: the input text
    npieces,     \* parser pipeline: the number of pieces the text was typed in
    stage,       \* parser pipeline: "input", "parsed", "rejected", "built", "done"
    ast,         \* parser pipeline: result of parse_document
    tree,        \* parser pipeline: green tree of ast_to_rowan
    hls,         \* parser pipeline: highlights of the tree
    documents,   \* ContextRuntimeHandle.documents: uri -> Some(DocumentState) or None
    pc,          \* per thread: position inside ContextRuntimeHandle::open/update
    call,        \* per thread: arguments and locals of the running call
    ret,         \* per thread: the last completed call and what it returned
    errors,      \* the RuntimeErrorFfi values delivered through on_error, in order
    notified,    \* uri -> the last highlights and diagnostics delivered to the callback
    ops,         \* number of handle calls started
    quiet,       \* history: uri -> the entry when the running calls on uri began
    batch,       \* history: uri -> the calls on uri started since then, in order
    runtime,     \* a Runtime: [documents, diagnostics], each uri -> Some or None
    rt_last,     \* history: uri -> content of the last open/update not closed since
    rt_ret,      \* the last Runtime call made
    rt_ops,      \* number of Runtime calls made
    fn_input,    \* parser functions: the input text
    fn_pieces,   \* parser functions: the number of pieces the input was typed in
    fn_typed,    \* history: the option pairs the input was typed from, in order
    fn_applied,  \* parser functions: the function applied to the input, or "none"
    fn_result,   \* parser functions: what it returned
    future,      \* an AsyncCompilationFuture: [made, remote, result, ready, cancelled]
    task,        \* position of the task AsyncCompilationFuture::new spawned
    ffi_result,  \* the ffi_result local of the spawned task
    polled,      \* what is_ready() and poll_result() returned to the caller, in order
    lock,        \* the RwLock of documents: [readers, writer], writer 0 when free
    step,        \* per thread: where it is in open, update or close, lock by lock
    doing,       \* per thread: [op, uri] of the call it is in
    present,     \* the uris that have an entry in documents
    active_jobs, \* ContextRuntimeHandle.active_jobs: the job ids registered
    job,         \* per job id: [uri, at, result], at the position of its task
    completions, \* the on_compilation_completed deliveries, in order, with their job
    cancel_ret,  \* the last cancel_compilation call and what it returned
    withdrawn    \* history: the job ids for which cancel_compilation returned true

parseVars == <<text, npieces, stage, ast, tree, hls>>
handleVars == <<documents, pc, call, ret, errors, notified, ops, quiet, batch>>
runtimeVars == <<runtime, rt_last, rt_ret, rt_ops>>
functionVars == <<fn_input, fn_pieces, fn_typed, fn_applied, fn_result>>
futureVars == <<future, task, ffi_result, polled>>
lockVars == <<lock, step, doing, present>>
jobVars == <<active_jobs, job, completions, cancel_ret, withdrawn>>
vars == <<text, npieces, stage, ast, tree, hls, documents, pc, call, ret, errors, notified,
          ops, quiet, batch, runtime, rt_last, rt_ret, rt_ops, fn_input, fn_pieces, fn_typed,
          fn_applied, fn_result, future, task, ffi_result, polled, lock, step, doing,
          present, active_jobs, job, completions, cancel_ret, withdrawn>>

-----------------------------------------------------------------------------
(* Characters and literal strings of the source *)

BS == "\\"
NL == "\n"

Lower == {"a","b","c","d","e","f","g","h","i","j","k","l","m",
          "n","o","p","q","r","s","t","u","v","w","x","y","z"}
Upper == {"A","B","C","D","E","F","G","H","I","J","K","L","M",
          "N","O","P","Q","R","S","T","U","V","W","X","Y","Z"}

\* nom alpha1: ASCII letters
IsAlpha(c) == c \in Lower \cup Upper

\* str::trim: white space
IsSpace(c) == c \in {" ", "\n", "\t"}

StartTextTag == <<"\\","s","t","a","r","t","t","e","x","t">>
StopTextTag == <<"\\","s","t","o","p","t","e","x","t">>
StartDocumentTag == <<"\\","s","t","a","r","t","d","o","c","u","m","e","n","t">>
StopDocumentTag == <<"\\","s","t","o","p","d","o","c","u","m","e","n","t">>
StartTag == <<"\\","s","t","a","r","t">>
StopTag == <<"\\","s","t","o","p">>
DocumentName == <<"d","o","c","u","m","e","n","t">>
TrueValue == <<"t","r","u","e">>

EmptyMap == [k \in {} |-> <<>>]

-----------------------------------------------------------------------------
(* Slices of text *)

\* s[from..to) with 0-based byte offsets, as Rust's &s[from..to]
Slice(s, from, to) == SubSeq(s, from + 1, to)

\* s[i..].starts_with(t), i a 0-based offset
StartsWithAt(s, i, t) ==
    /\ i + Len(t) <= Len(s)
    /\ \A k \in 1..Len(t) : s[i + k] = t[k]

\* the least element of a set of integers, or none when the set is empty
LeastOr(S, none) == IF S = {} THEN none ELSE CHOOSE j \in S : \A h \in S : j <= h

\* the greatest element of a set of integers, or none when the set is empty
GreatestOr(S, none) == IF S = {} THEN none ELSE CHOOSE j \in S : \A h \in S : h <= j

\* str::find from offset i: the least offset j >= i where t occurs, or -1
FindFrom(s, i, t) == LeastOr({j \in i..(Len(s) - Len(t)) : StartsWithAt(s, j, t)}, -1)

\* str::contains
Contains(s, t) == FindFrom(s, 0, t) >= 0

RECURSIVE TrimStart(_)
TrimStart(s) ==
    IF Len(s) > 0 /\ IsSpace(s[1]) THEN TrimStart(Tail(s)) ELSE s

RECURSIVE TrimEnd(_)
TrimEnd(s) ==
    IF Len(s) > 0 /\ IsSpace(s[Len(s)]) THEN TrimEnd(SubSeq(s, 1, Len(s) - 1)) ELSE s

Trim(s) == TrimEnd(TrimStart(s))

\* str::split(sep): the pieces between the occurrences of the character sep
RECURSIVE Split(_, _)
SplitAt(s, sep, j) ==
    IF j < 0 THEN <<s>>
    ELSE <<Slice(s, 0, j)>> \o Split(Slice(s, j + 1, Len(s)), sep)

Split(s, sep) == SplitAt(s, sep, FindFrom(s, 0, <<sep>>))

-----------------------------------------------------------------------------
(* nom_locate spans and nom results *)

NewSpan(s) == [src |-> s, pos |-> 0]

Frag(sp) == Slice(sp.src, sp.pos, Len(sp.src))

FragLen(sp) == Len(sp.src) - sp.pos

Adv(sp, n) == [sp EXCEPT !.pos = sp.pos + n]

\* location_line: 1 + the number of newlines before the offset
LocationLine(sp) == 1 + Cardinality({i \in 1..sp.pos : sp.src[i] = NL})

\* get_column: 1 + the number of bytes since the last newline before the offset
GetColumn(sp) == sp.pos - GreatestOr({i \in 1..sp.pos : sp.src[i] = NL}, 0) + 1

\* a faulty conversion whose end is the length of the fragment; SpanContainment
\* must tell it from SourceSpan
SourceSpanEndIsLength(sp) ==
    [start |-> sp.pos,
     end |-> FragLen(sp),
     start_line |-> LocationLine(sp),
     start_col |-> GetColumn(sp)]

\* impl From<LocatedSpan<&str>> for SourceSpan
SourceSpan(sp) ==
    [start |-> sp.pos,
     end |-> sp.pos + FragLen(sp),
     start_line |-> LocationLine(sp),
     start_col |-> GetColumn(sp)]

Ok(rest, val) == [ok |-> TRUE, rest |-> rest, val |-> val]
Fail == [ok |-> FALSE]

tag(t, sp) ==
    IF StartsWithAt(sp.src, sp.pos, t) THEN Ok(Adv(sp, Len(t)), t) ELSE Fail

chr(c, sp) == tag(<<c>>, sp)

\* the input up to offset j, or an error when j is -1
TakeTo(sp, j) ==
    IF j < 0 THEN Fail ELSE Ok([sp EXCEPT !.pos = j], Slice(sp.src, sp.pos, j))

\* the next n bytes of the input, or an error when n is 0
Take1(sp, n) ==
    IF n = 0 THEN Fail ELSE Ok(Adv(sp, n), Slice(sp.src, sp.pos, sp.pos + n))

take_until(t, sp) == TakeTo(sp, FindFrom(sp.src, sp.pos, t))

\* the length of the longest run of characters of good from offset i
RECURSIVE RunLen(_, _, _)
RunLen(s, i, good) ==
    IF i < Len(s) /\ s[i + 1] \in good THEN 1 + RunLen(s, i + 1, good) ELSE 0

alpha1(sp) == Take1(sp, RunLen(sp.src, sp.pos, Lower \cup Upper))

\* not_line_ending: everything up to the next newline or the end of input
not_line_ending(sp) ==
    TakeTo(sp, LeastOr({j \in sp.pos..(Len(sp.src) - 1) : sp.src[j + 1] = NL},
                       Len(sp.src)))

\* take_while1(|c| c != '\\' && c != '%' && c != '{' && c != '}')
TextRunLen(sp) ==
    LeastOr({j \in sp.pos..(Len(sp.src) - 1) : sp.src[j + 1] \in {BS, "%", "{", "}"}},
            Len(sp.src)) - sp.pos

-----------------------------------------------------------------------------
(* The AST of src/src/ast.rs *)

TextNode(content, span) == [type |-> "Text", content |-> content, span |-> span]

CommentNode(content, span) == [type |-> "Comment", content |-> content, span |-> span]

CommandNode(name, style, arg_style, options, arguments, span) ==
    [type |-> "Command", name |-> name, style |-> style, arg_style |-> arg_style,
     options |-> options, arguments |-> arguments, span |-> span]

StartStopNode(name, options, content, span) ==
    [type |-> "StartStop", name |-> name, options |-> options, content |-> content,
     span |-> span]

DocumentNode(preamble, body) ==
    [type |-> "Document", preamble |-> preamble, body |-> body]

-----------------------------------------------------------------------------
(* The parser of src/src/parser.rs *)

\* one pair of the closure of parse_options: split on the first '=', both sides
\* trimmed, the value "true" when there is no '='
KeyValue(p, j) ==
    IF j < 0 THEN [key |-> Trim(p), value |-> Trim(TrueValue)]
    ELSE [key |-> Trim(Slice(p, 0, j)), value |-> Trim(Slice(p, j + 1, Len(p)))]

OptionPair(p) == KeyValue(p, FindFrom(p, 0, <<"=">>))

\* a faulty insert that keeps the value a key already has; OptionNormalization
\* must tell it from Insert
InsertKeepsFirst(m, kv) ==
    [k \in DOMAIN m \cup {kv.key} |-> IF k \in DOMAIN m THEN m[k] ELSE kv.value]

\* HashMap::insert
Insert(m, kv) ==
    [k \in DOMAIN m \cup {kv.key} |-> IF k = kv.key THEN kv.value ELSE m[k]]

\* .collect() into a HashMap: a later pair with the same key replaces an earlier one
RECURSIVE CollectOptions(_)
CollectOptions(pairs) ==
    IF pairs = <<>> THEN EmptyMap
    ELSE Insert(CollectOptions(SubSeq(pairs, 1, Len(pairs) - 1)),
                OptionPair(pairs[Len(pairs)]))

\* the closure of parse_options on the text between the brackets
OptionPairs(s) == CollectOptions(Split(s, ","))

\* the options of parse_options, from the result of take_until("]")
OptionsResult(body) ==
    IF ~body.ok THEN Fail ELSE Ok(Adv(body.rest, 1), OptionPairs(body.val))

parse_options(sp) ==
    IF ~chr("[", sp).ok THEN Fail ELSE OptionsResult(take_until(<<"]">>, Adv(sp, 1)))

\* opt(p) on the result r of p
Opt(sp, r) ==
    IF r.ok THEN [rest |-> r.rest, some |-> TRUE, val |-> r.val]
    ELSE [rest |-> sp, some |-> FALSE, val |-> EmptyMap]

\* opt(parse_options)
opt_parse_options(sp) == Opt(sp, parse_options(sp))

\* map(..., |(arg, options)| (arg, options.unwrap_or_default()))
ContextStyleResult(arg, o) ==
    Ok(o.rest, [arg |-> arg, some |-> o.some, options |-> o.val])

\* the rest of parse_context_style_args after take_until("]")
ContextStyleArg(arg) ==
    IF ~arg.ok THEN Fail
    ELSE ContextStyleResult(arg.val, opt_parse_options(Adv(arg.rest, 1)))

parse_context_style_args(sp) ==
    IF ~chr("[", sp).ok THEN Fail ELSE ContextStyleArg(take_until(<<"]">>, Adv(sp, 1)))

\* the Comment node of parse_comment, from the result of not_line_ending
CommentResult(sp, c) == Ok(c.rest, CommentNode(Trim(c.val), SourceSpan(sp)))

parse_comment(sp) ==
    IF ~chr("%", sp).ok THEN Fail ELSE CommentResult(sp, not_line_ending(Adv(sp, 1)))

\* the Text node of parse_text, from the result of take_while1
TextResult(sp, r) ==
    IF ~r.ok THEN Fail ELSE Ok(r.rest, TextNode(r.val, SourceSpan(sp)))

parse_text(sp) == TextResult(sp, Take1(sp, TextRunLen(sp)))

\* the argument of parse_line_ending_args, from the result of take_until("\n")
LineEndingResult(sp, t) ==
    IF ~t.ok THEN Fail ELSE Ok(Adv(t.rest, 1), <<TextNode(Trim(t.val), SourceSpan(sp))>>)

parse_line_ending_args(sp) == LineEndingResult(sp, take_until(<<NL>>, sp))

\* the static argument-style table in parse_command
ArgStyleOf(name) ==
    IF name = <<"i","t","e","m">> THEN "LineEnding"
    ELSE IF name \in {<<"e","m">>, <<"b","f">>, <<"i","t">>, <<"t","t">>,
                      <<"r","m">>, <<"s","f">>, <<"s","c">>, <<"s","l">>}
         THEN "GroupScoped"
         ELSE "Explicit"

RECURSIVE parse_node(_), parse_command(_), parse_startstop(_), ParseAlt(_, _),
          Many0(_, _), ManyTill(_, _)

\* alt((a, b)): the first alternative that succeeds
OrElse(a, b) == IF a.ok THEN a ELSE b

\* the accumulation of many0 and many_till: an item followed by the items after it
Cons(v, more) == IF ~more.ok THEN Fail ELSE Ok(more.rest, <<v>> \o more.val)

\* alt((...)): the alternatives of parse_node ("node"), parse_explicit_args
\* ("explicit") and parse_group_scoped_args ("group"), in the order written
ParseAlt(mode, sp) ==
    IF mode = "node" THEN
        OrElse(parse_comment(sp),
               OrElse(parse_startstop(sp),
                      OrElse(parse_command(sp), parse_text(sp))))
    ELSE IF mode = "explicit" THEN
        OrElse(parse_text(sp),
               OrElse(parse_comment(sp),
                      OrElse(parse_command(sp), parse_startstop(sp))))
    ELSE
        OrElse(parse_text(sp), OrElse(parse_comment(sp), parse_command(sp)))

parse_node(sp) == ParseAlt("node", sp)

\* one round of many0 on the result r of the item parser
Many0Step(mode, sp, r) ==
    IF ~r.ok THEN Ok(sp, <<>>)
    ELSE IF r.rest.pos = sp.pos THEN Fail
    ELSE Cons(r.val, Many0(mode, r.rest))

\* many0(p): apply p until it fails; an application that consumes nothing is an error
Many0(mode, sp) == Many0Step(mode, sp, ParseAlt(mode, sp))

\* one round of many_till on the result r of parse_node
ManyTillStep(stop_tag, sp, r) ==
    IF ~r.ok THEN Fail
    ELSE IF r.rest.pos = sp.pos THEN Fail
    ELSE Cons(r.val, ManyTill(stop_tag, r.rest))

\* many_till(parse_node, tag(stop_tag))
ManyTill(stop_tag, sp) ==
    IF tag(stop_tag, sp).ok THEN Ok(Adv(sp, Len(stop_tag)), <<>>)
    ELSE ManyTillStep(stop_tag, sp, parse_node(sp))

\* the closing char('}') of delimited, after the body
CloseBrace(body) ==
    IF ~body.ok THEN Fail
    ELSE IF ~chr("}", body.rest).ok THEN Fail
    ELSE Ok(Adv(body.rest, 1), body.val)

\* delimited(char('{'), many0(alt(...)), char('}'))
BraceGroup(mode, sp) ==
    IF ~chr("{", sp).ok THEN Fail ELSE CloseBrace(Many0(mode, Adv(sp, 1)))

\* a faulty parse_explicit_args that never takes the brace group;
\* TexStyleDispatch must tell it from parse_explicit_args
ExplicitArgsNone(sp) == Ok(sp, <<>>)

parse_explicit_args(sp) == OrElse(BraceGroup("explicit", sp), Ok(sp, <<>>))

\* a faulty parse_group_scoped_args that leaves the brace group unread;
\* GroupScopedBraceGroup must tell it from parse_group_scoped_args
GroupScopedArgsNone(sp) == Ok(sp, <<>>)

parse_group_scoped_args(sp) == BraceGroup("group", sp)

\* the TexStyle result of parse_command, given the parsed arguments
TexStyleCommand(sp, name, arg_style, options, args) ==
    IF ~args.ok THEN Fail
    ELSE Ok(args.rest,
            CommandNode(name, "TexStyle", arg_style, options, args.val, SourceSpan(sp)))

\* parse_command after opt(parse_options): the arguments by argument style
TexStyleArgs(sp, name, arg_style, o) ==
    TexStyleCommand(sp, name, arg_style, o.val,
        CASE arg_style = "LineEnding" -> parse_line_ending_args(o.rest)
          [] arg_style = "GroupScoped" -> parse_group_scoped_args(o.rest)
          [] OTHER -> parse_explicit_args(o.rest))

\* a faulty parse_command without the ConTeXt-style probe; ContextStyleDispatch
\* must tell it from CommandStyled
CommandStyledTexOnly(sp, name, cs) ==
    TexStyleArgs(sp, name.val, ArgStyleOf(name.val), opt_parse_options(name.rest))

\* parse_command after the attempt cs of parse_context_style_args
CommandStyled(sp, name, cs) ==
    IF cs.ok /\ ~StartsWithAt(cs.rest.src, cs.rest.pos, <<"{">>)
    THEN Ok(cs.rest,
            CommandNode(name.val, "ContextStyle", "Explicit", cs.val.options,
                        <<TextNode(cs.val.arg, SourceSpan(sp))>>, SourceSpan(sp)))
    ELSE TexStyleArgs(sp, name.val, ArgStyleOf(name.val), opt_parse_options(name.rest))

\* parse_command after alpha1
CommandNamed(sp, name) ==
    IF ~name.ok THEN Fail
    ELSE CommandStyled(sp, name, parse_context_style_args(name.rest))

parse_command(sp) ==
    IF ~chr(BS, sp).ok THEN Fail ELSE CommandNamed(sp, alpha1(Adv(sp, 1)))

\* the result of parse_startstop, given the parsed content
StartStopResult(sp, name, options, body) ==
    IF ~body.ok THEN Fail
    ELSE Ok(body.rest, StartStopNode(name, options, body.val, SourceSpan(sp)))

\* a faulty parse_startstop whose content ends at the first \stop of any name;
\* BalancedNesting must tell it from StartStopContent
StartStopContentAnyStop(sp, name, o) ==
    StartStopResult(sp, name, o.val, ManyTill(StopTag, o.rest))

\* parse_startstop after opt(parse_options)
StartStopContent(sp, name, o) ==
    StartStopResult(sp, name, o.val, ManyTill(StopTag \o name, o.rest))

\* parse_startstop after alpha1
StartStopNamed(sp, name) ==
    IF ~name.ok THEN Fail
    ELSE StartStopContent(sp, name.val, opt_parse_options(name.rest))

parse_startstop(sp) ==
    IF ~tag(StartTag, sp).ok THEN Fail
    ELSE StartStopNamed(sp, alpha1(Adv(sp, Len(StartTag))))

\* find_matching_stop(&bytes[base..]): the offset, relative to base, just past the
\* \stop that balances the \start at base, or -1 (None)
RECURSIVE FindMatchingStopFrom(_, _, _, _)
FindMatchingStopFrom(s, base, pos, depth) ==
    IF base + pos >= Len(s) THEN -1
    ELSE IF StartsWithAt(s, base + pos, StartTag)
         THEN FindMatchingStopFrom(s, base, pos + 6, depth + 1)
    ELSE IF StartsWithAt(s, base + pos, StopTag) /\ depth > 0
         THEN IF depth - 1 = 0 THEN pos + 5
              ELSE FindMatchingStopFrom(s, base, pos + 5, depth - 1)
    ELSE FindMatchingStopFrom(s, base, pos + 1, depth)

find_matching_stop(s, base) == FindMatchingStopFrom(s, base, 6, 1)

\* the loop of parse_until: the offset of the end marker found, or -1
RECURSIVE ParseUntilFrom(_, _, _)
ParseUntilFrom(s, i, end_marker) ==
    IF i >= Len(s) THEN -1
    ELSE IF StartsWithAt(s, i, end_marker) THEN i
    ELSE IF StartsWithAt(s, i, StartTag) /\ find_matching_stop(s, i) >= 0
         THEN ParseUntilFrom(s, i + find_matching_stop(s, i), end_marker)
    ELSE ParseUntilFrom(s, i + 1, end_marker)

\* the return of parse_until for the end marker (of length n) found at offset i of
\* the text s, or the error when i is -1: (remaining, content), both as new spans
UntilResult(s, i, n) ==
    IF i < 0 THEN Fail
    ELSE Ok(NewSpan(Slice(s, i + n, Len(s))), NewSpan(Slice(s, 0, i)))

parse_until(sp, end_marker) ==
    UntilResult(Frag(sp), ParseUntilFrom(Frag(sp), 0, end_marker), Len(end_marker))

\* the end marker chosen on the text that follows the start marker
EndMarkerFor(body_text) ==
    IF Contains(body_text, StartDocumentTag) THEN StopDocumentTag ELSE StopTextTag

\* alt((...)) on the offsets t of the first \starttext and d of the first
\* \startdocument: [found, at, len]
Starter(t, d) ==
    IF t >= 0 THEN [found |-> TRUE, at |-> t, len |-> Len(StartTextTag)]
    ELSE IF d >= 0 THEN [found |-> TRUE, at |-> d, len |-> Len(StartDocumentTag)]
    ELSE [found |-> FALSE, at |-> 0, len |-> 0]

\* the position of the start marker found by alt((take_until+tag \starttext,
\* take_until+tag \startdocument))
FindStarter(s) == Starter(FindFrom(s, 0, StartTextTag), FindFrom(s, 0, StartDocumentTag))

\* the return of the branch for an input that starts with \startdocument
DocumentBranch(sp, rest, nodes) ==
    IF ~nodes.ok THEN Fail
    ELSE Ok(rest,
            DocumentNode(<<>>,
                <<StartStopNode(DocumentName, EmptyMap, nodes.val, SourceSpan(sp))>>))

\* the branch for an input that starts with \startdocument, after parse_until
DocumentContent(sp, c) ==
    IF ~c.ok THEN Fail ELSE DocumentBranch(sp, c.rest, Many0("node", c.val))

\* the return of the general branch
PreambleBodyBranch(rest, preamble_nodes, body_nodes) ==
    IF ~preamble_nodes.ok \/ ~body_nodes.ok THEN Fail
    ELSE Ok(rest, DocumentNode(preamble_nodes.val, body_nodes.val))

\* the general branch after parse_until
BodyUntil(preamble, body) ==
    IF ~body.ok THEN Fail
    ELSE PreambleBodyBranch(body.rest, Many0("node", NewSpan(preamble)),
                            Many0("node", body.val))

\* the general branch on the preamble text and the input after the start marker
PreambleBody(preamble, input) ==
    BodyUntil(preamble, parse_until(input, EndMarkerFor(Frag(input))))

\* the general branch: (input, preamble) by the start marker m found in the text s
SplitPreamble(sp, s, m) ==
    PreambleBody(IF m.found THEN Slice(s, 0, m.at) ELSE <<>>,
                 IF m.found THEN NewSpan(Slice(s, m.at + m.len, Len(s))) ELSE sp)

parse_document_span(sp) ==
    IF tag(StartDocumentTag, sp).ok
    THEN DocumentContent(sp, parse_until(Adv(sp, Len(StartDocumentTag)), StopDocumentTag))
    ELSE SplitPreamble(sp, Frag(sp), FindStarter(Frag(sp)))

\* .map(|(_, node)| node)
NodeOf(r) == IF r.ok THEN [ok |-> TRUE, val |-> r.val] ELSE Fail

\* parse_document: Ok(node) or Err
parse_document(input) == NodeOf(parse_document_span(NewSpan(input)))

-----------------------------------------------------------------------------
(* The concrete syntax tree of src/src/syntax.rs.  An element of the green *)
(* tree is a node [node |-> TRUE, kind, children] or a token               *)
(* [node |-> FALSE, kind, text].                                           *)

GreenNodeOf(kind, children) == [node |-> TRUE, kind |-> kind, children |-> children]

GreenToken(kind, txt) == [node |-> FALSE, kind |-> kind, text |-> txt]

\* an enumeration of a finite set
RECURSIVE SeqOfSet(_)
SeqOfSet(S) ==
    IF S = {} THEN <<>>
    ELSE LET x == CHOOSE y \in S : TRUE IN <<x>> \o SeqOfSet(S \ {x})

Reverse(s) == [i \in 1..Len(s) |-> s[Len(s) + 1 - i]]

\* options.iter(): a HashMap iterates in an unspecified order; salt selects
\* one of two orders of the keys
OptionsIter(options, salt) ==
    IF salt = 0 THEN SeqOfSet(DOMAIN options) ELSE Reverse(SeqOfSet(DOMAIN options))

RECURSIVE OptionTokens(_, _, _)
OptionTokens(options, keys, i) ==
    IF i > Len(keys) THEN <<>>
    ELSE (IF i > 1 THEN <<GreenToken("Punctuation", <<",">>)>> ELSE <<>>)
         \o <<GreenToken("OptionKey", keys[i]),
              GreenToken("Punctuation", <<"=">>),
              GreenToken("OptionValue", options[keys[i]])>>
         \o OptionTokens(options, keys, i + 1)

RECURSIVE add_node(_, _), AddNodes(_, _)
add_node(n, salt) ==
    CASE n.type = "Command" ->
            <<GreenNodeOf("Command",
                <<GreenToken("CommandName", n.name)>>
                \o (IF DOMAIN n.options # {}
                    THEN <<GreenNodeOf("OptionGroup",
                             OptionTokens(n.options, OptionsIter(n.options, salt), 1))>>
                    ELSE <<>>)
                \o AddNodes(n.arguments, salt))>>
      [] n.type = "StartStop" ->
            <<GreenNodeOf("StartStop",
                <<GreenToken("EnvName", n.name)>> \o AddNodes(n.content, salt))>>
      [] n.type = "Text" -> <<GreenToken("Text", n.content)>>
      [] n.type = "Comment" -> <<GreenToken("Comment", n.content)>>

\* for node in nodes { add_node(builder, node) }
AddNodes(nodes, salt) ==
    IF nodes = <<>> THEN <<>>
    ELSE add_node(Head(nodes), salt) \o AddNodes(Tail(nodes), salt)

ast_to_rowan(root, salt) ==
    IF root.type = "Document"
    THEN GreenNodeOf("Document",
            <<GreenNodeOf("Preamble", AddNodes(root.preamble, salt)),
              GreenNodeOf("Body", AddNodes(root.body, salt))>>)
    ELSE GreenNodeOf("Document", add_node(root, salt))

\* the text of an element: its tokens' text in document order
RECURSIVE TreeText(_), ChildrenText(_)
TreeText(e) == IF e.node THEN ChildrenText(e.children) ELSE e.text

ChildrenText(es) ==
    IF es = <<>> THEN <<>> ELSE TreeText(Head(es)) \o ChildrenText(Tail(es))

-----------------------------------------------------------------------------
(* The highlighter of src/src/highlight.rs, on the red view of the tree:   *)
(* an element's text range starts at the summed text length of what        *)
(* precedes it.  The kinds Environment and Options of highlight.rs are the *)
(* kinds StartStop and OptionGroup of syntax.rs.                           *)

\* a faulty highlight whose range begins at the start of the document;
\* HighlightOrdering must tell it from HighlightOf
HighlightFromZero(start, end, kind) == [range |-> [start |-> 0, end |-> end], kind |-> kind]

HighlightOf(start, end, kind) == [range |-> [start |-> start, end |-> end], kind |-> kind]

\* node.first_token(): the first child element, descended into
RECURSIVE FirstToken(_)
FirstToken(e) ==
    IF ~e.node THEN [some |-> TRUE, text |-> e.text]
    ELSE IF e.children = <<>> THEN [some |-> FALSE, text |-> <<>>]
    ELSE FirstToken(e.children[1])

\* the match of highlight_node: the highlight kind of a node kind, or "" for none
HighlightKindOf(kind) ==
    CASE kind = "Command" -> "Command"
      [] kind = "StartStop" -> "Environment"
      [] kind = "OptionGroup" -> "Option"
      [] kind = "Text" -> "Text"
      [] kind = "Comment" -> "Comment"
      [] OTHER -> ""

RECURSIVE highlight_node(_, _), HighlightChildren(_, _)
highlight_node(n, off) ==
    (IF HighlightKindOf(n.kind) # "" /\ FirstToken(n).some
     THEN <<HighlightOf(off, off + Len(FirstToken(n).text), HighlightKindOf(n.kind))>>
     ELSE <<>>)
    \o HighlightChildren(n.children, off)

\* for child in node.children(): the child nodes (tokens are not children())
HighlightChildren(es, off) ==
    IF es = <<>> THEN <<>>
    ELSE (IF Head(es).node THEN highlight_node(Head(es), off) ELSE <<>>)
         \o HighlightChildren(Tail(es), off + Len(TreeText(Head(es))))

highlight(root) == highlight_node(root, 0)

\* HighlightKind::to_string
HighlightKindString(kind) ==
    CASE kind = "Keyword" -> "keyword"
      [] kind = "Command" -> "command"
      [] kind = "Option" -> "option"
      [] kind = "Text" -> "text"
      [] kind = "Comment" -> "comment"
      [] kind = "Environment" -> "environment"

\* impl From<Highlight> for HighlightFfi
HighlightFfi(h) == [range |-> h.range, kind |-> HighlightKindString(h.kind)]

-----------------------------------------------------------------------------
(* Diagnostics: src/src/diagnostic.rs and src/src/runtime.rs *)

KnownCommands ==
  {<<"s","e","t","u","p","b","o","d","y","f","o","n","t">>,
    <<"s","e","t","u","p","p","a","p","e","r","s","i","z","e">>,
    <<"s","e","t","u","p","m","a","r","g","i","n","s">>,
    <<"s","e","t","u","p","h","e","a","d">>, <<"s","e","t","u","p","l","i","s","t">>,
    <<"s","e","t","u","p","i","t","e","m","i","z","e">>,
    <<"s","e","t","u","p","e","n","u","m","e","r","a","t","e">>,
    <<"s","e","t","u","p","d","e","s","c","r","i","p","t","i","o","n">>,
    <<"d","e","f","i","n","e","f","o","n","t">>,
    <<"d","e","f","i","n","e","c","o","l","o","r">>,
    <<"d","e","f","i","n","e","l","a","y","o","u","t">>,
    <<"s","e","t","u","p","c","o","l","o","r">>, <<"i","n","p","u","t">>,
    <<"c","o","m","p","o","n","e","n","t">>, <<"p","r","o","d","u","c","t">>,
    <<"e","n","v","i","r","o","n","m","e","n","t">>, <<"p","r","o","j","e","c","t">>,
    <<"e","m">>, <<"b","f">>, <<"i","t">>, <<"t","t">>, <<"r","m">>, <<"s","f">>, <<"s","c">>,
    <<"s","l">>, <<"i","t","e","m">>, <<"h","e","a","d">>, <<"s","u","b","h","e","a","d">>,
    <<"s","u","b","s","u","b","h","e","a","d">>, <<"t","i","t","l","e">>,
    <<"s","u","b","j","e","c","t">>, <<"p","a","g","e">>, <<"b","l","a","n","k">>,
    <<"s","p","a","c","e">>, <<"p","a","r">>, <<"b","r","e","a","k">>, <<"h","f","i","l","l">>,
    <<"v","f","i","l","l">>, <<"s","t","a","r","t","t","e","x","t">>,
    <<"s","t","o","p","t","e","x","t">>,
    <<"s","t","a","r","t","d","o","c","u","m","e","n","t">>,
    <<"s","t","o","p","d","o","c","u","m","e","n","t">>}

KnownEnvironments ==
  {<<"d","o","c","u","m","e","n","t">>, <<"t","e","x","t">>, <<"i","t","e","m","i","z","e">>,
    <<"e","n","u","m","e","r","a","t","e">>, <<"d","e","s","c","r","i","p","t","i","o","n">>,
    <<"t","a","b","l","e">>, <<"t","a","b","u","l","a","t","e">>, <<"f","i","g","u","r","e">>,
    <<"f","l","o","a","t">>, <<"f","r","a","m","e","d">>, <<"t","y","p","i","n","g">>,
    <<"v","e","r","b","a","t","i","m">>, <<"q","u","o","t","e">>,
    <<"q","u","o","t","a","t","i","o","n">>, <<"l","i","n","e","s">>,
    <<"f","o","r","m","u","l","a">>, <<"m","a","t","h">>,
    <<"a","l","i","g","n","m","e","n","t">>,
    <<"c","o","m","b","i","n","a","t","i","o","n","s">>, <<"c","o","l","u","m","n","s">>}

is_known_command(name) == name \in KnownCommands

is_known_environment(name) == name \in KnownEnvironments

UnknownCommandPrefix ==
    <<"U","n","k","n","o","w","n"," ","c","o","m","m","a","n","d",":"," ","\\">>

UnknownEnvironmentPrefix ==
    <<"U","n","k","n","o","w","n"," ","e","n","v","i","r","o","n","m","e","n","t",":"," ">>

\* Diagnostic::warning(line, column, length, message, source)
DiagnosticWarning(line, column, length, message, source) ==
    [span |-> [start_line |-> line, start_col |-> column,
               end_line |-> line, end_col |-> column + length],
     severity |-> "Warning", message |-> message, source |-> source]

\* Diagnostic::error(line, column, length, message, source)
DiagnosticError(line, column, length, message, source) ==
    [span |-> [start_line |-> line, start_col |-> column,
               end_line |-> line, end_col |-> column + length],
     severity |-> "Error", message |-> message, source |-> source]

RECURSIVE collect_ast_diagnostics(_), CollectAll(_)
collect_ast_diagnostics(n) ==
    CASE n.type = "Command" ->
            IF ~is_known_command(n.name)
            THEN <<DiagnosticWarning(n.span.start_line, n.span.start_col,
                                     n.span.end - n.span.start,
                                     UnknownCommandPrefix \o n.name, "parser")>>
            ELSE <<>>
      [] n.type = "StartStop" ->
            (IF ~is_known_environment(n.name)
             THEN <<DiagnosticWarning(n.span.start_line, n.span.start_col,
                                      n.span.end - n.span.start,
                                      UnknownEnvironmentPrefix \o n.name, "parser")>>
             ELSE <<>>)
            \o CollectAll(n.content)
      [] n.type = "Document" -> CollectAll(n.preamble \o n.body)
      [] OTHER -> <<>>

CollectAll(nodes) ==
    IF nodes = <<>> THEN <<>>
    ELSE collect_ast_diagnostics(Head(nodes)) \o CollectAll(Tail(nodes))

\* DiagnosticSeverity::to_string
SeverityString(sev) ==
    CASE sev = "Error" -> "error"
      [] sev = "Warning" -> "warning"
      [] sev = "Info" -> "info"

\* impl From<Diagnostic> for DiagnosticFfi (the range is the diagnostic's span)
DiagnosticFfi(d) ==
    [range |-> d.span, severity |-> SeverityString(d.severity),
     message |-> d.message, source |-> d.source]

\* .into_iter().map(Into::into).collect()
RECURSIVE HighlightsFfi(_)
HighlightsFfi(hs) ==
    IF hs = <<>> THEN <<>> ELSE <<HighlightFfi(Head(hs))>> \o HighlightsFfi(Tail(hs))

RECURSIVE DiagnosticsFfi(_)
DiagnosticsFfi(ds) ==
    IF ds = <<>> THEN <<>> ELSE <<DiagnosticFfi(Head(ds))>> \o DiagnosticsFfi(Tail(ds))

-----------------------------------------------------------------------------
(* The parser pipeline of Document::from_str (src/src/workspace.rs), run   *)
(* on every text typed in at most MaxPieces pieces.                        *)

MaxPieces == 4

Pieces ==
    {StartTextTag, StopTextTag, StartDocumentTag, StopDocumentTag,
     <<"a">>, <<"\\","q">>, <<"{">>, <<"}">>, <<" ">>, <<"{","a","}">>, <<"[","k","=","v","]">>,
     <<"\\","s","t","a","r","t","q">>, <<"\\","s","t","o","p","q">>}

NoTree == GreenNodeOf("Document", <<>>)

InitParse ==
    /\ text = <<>>
    /\ npieces = 0
    /\ stage = "input"
    /\ ast = Fail
    /\ tree = NoTree
    /\ hls = <<>>

\* the source text grows by one piece
TypePiece(p) ==
    /\ stage = "input"
    /\ npieces < MaxPieces
    /\ text' = text \o p
    /\ npieces' = npieces + 1
    /\ UNCHANGED <<stage, ast, tree, hls>>
    /\ UNCHANGED <<handleVars, runtimeVars, functionVars, futureVars, lockVars, jobVars>>

\* let ast = parser::parse_document(source).ok()?
ParseStep ==
    /\ stage = "input"
    /\ ast' = parse_document(text)
    /\ stage' = IF ast'.ok THEN "parsed" ELSE "rejected"
    /\ UNCHANGED <<text, npieces, tree, hls>>
    /\ UNCHANGED <<handleVars, runtimeVars, functionVars, futureVars, lockVars, jobVars>>

\* let green = syntax::ast_to_rowan(ast.clone())
BuildStep ==
    /\ stage = "parsed"
    /\ \E salt \in {0, 1} : tree' = ast_to_rowan(ast.val, salt)
    /\ stage' = "built"
    /\ UNCHANGED <<text, npieces, ast, hls>>
    /\ UNCHANGED <<handleVars, runtimeVars, functionVars, futureVars, lockVars, jobVars>>

\* let highlights = run(&syntax_tree)
HighlightStep ==
    /\ stage = "built"
    /\ hls' = highlight(tree)
    /\ stage' = "done"
    /\ UNCHANGED <<text, npieces, ast, tree>>
    /\ UNCHANGED <<handleVars, runtimeVars, functionVars, futureVars, lockVars, jobVars>>

-----------------------------------------------------------------------------
(* The document store of Runtime (src/src/runtime.rs).  A HashMap over the *)
(* uris is a function to Option values.                                    *)

Uris == {"u1", "u2"}

None == [some |-> FALSE]
Some(v) == [some |-> TRUE, val |-> v]

\* Runtime::new: both maps empty
NewRuntime ==
    [documents |-> [u \in Uris |-> None], diagnostics |-> [u \in Uris |-> None]]

get_document_source(rt, uri) == rt.documents[uri]

\* Some(ast) when the uri is open and its source parses
get_document_ast(rt, uri) ==
    IF rt.documents[uri].some THEN parse_document(rt.documents[uri].val) ELSE Fail

\* highlight over the tree of the AST, as in Document::from_str
\* the highlights of an AST, none without one
HighlightsOf(a, salt) == IF a.ok THEN highlight(ast_to_rowan(a.val, salt)) ELSE <<>>

get_highlights(rt, uri, salt) == HighlightsOf(get_document_ast(rt, uri), salt)

get_diagnostics(rt, uri) ==
    IF rt.diagnostics[uri].some THEN rt.diagnostics[uri].val ELSE <<>>

\* the diagnostics collected from an AST, none without one
ParseDiagnostics(a) == IF a.ok THEN collect_ast_diagnostics(a.val) ELSE <<>>

\* a faulty update_parse_diagnostics that keeps the compiler diagnostics stored
\* for the uri; FreshDiagnostics must tell it from update_parse_diagnostics
UpdateParseDiagnosticsKeepsCompiler(rt, uri) ==
    [rt EXCEPT !.diagnostics[uri] =
        Some(ParseDiagnostics(get_document_ast(rt, uri))
             \o SelectSeq(get_diagnostics(rt, uri), LAMBDA d : d.source = "compiler"))]

update_parse_diagnostics(rt, uri) ==
    [rt EXCEPT !.diagnostics[uri] = Some(ParseDiagnostics(get_document_ast(rt, uri)))]

open_document(rt, uri, content) ==
    update_parse_diagnostics([rt EXCEPT !.documents[uri] = Some(content)], uri)

update_document(rt, uri, content) == open_document(rt, uri, content)

\* the compiler is a process outside the program: compile fails (no executable,
\* no temporary file) or returns what parse_log read from the log
CompilerResults ==
    {[success |-> TRUE, errors |-> <<>>, warnings |-> <<>>],
     [success |-> TRUE, errors |-> <<>>,
      warnings |-> <<[line |-> 1, column |-> 1, message |-> <<"w">>]>>],
     [success |-> FALSE, warnings |-> <<>>,
      errors |-> <<[line |-> 1, column |-> 1, message |-> <<"e">>]>>]}

CompilerOutcomes == {Fail} \cup {[ok |-> TRUE, val |-> r] : r \in CompilerResults}

\* retain(|d| d.source != "compiler")
RECURSIVE RetainNotCompiler(_)
RetainNotCompiler(diagnostics) ==
    IF diagnostics = <<>> THEN <<>>
    ELSE (IF Head(diagnostics).source # "compiler" THEN <<Head(diagnostics)>> ELSE <<>>)
         \o RetainNotCompiler(Tail(diagnostics))

\* the compiler diagnostics of one CompilationResult: its errors, then its
\* warnings
CompilerDiagnostics(result) ==
    [i \in 1..Len(result.errors) |->
        DiagnosticError(result.errors[i].line, result.errors[i].column, 1,
                        result.errors[i].message, "compiler")]
    \o [i \in 1..Len(result.warnings) |->
        DiagnosticWarning(result.warnings[i].line, result.warnings[i].column, 1,
                          result.warnings[i].message, "compiler")]

\* a faulty update_compilation_diagnostics that keeps the diagnostics of earlier
\* compilations; CompileChangesCompilerDiagnostics must tell it from
\* update_compilation_diagnostics
UpdateCompilationDiagnosticsAccumulates(rt, uri, result) ==
    [rt EXCEPT !.diagnostics[uri] =
        Some(get_diagnostics(rt, uri) \o CompilerDiagnostics(result))]

update_compilation_diagnostics(rt, uri, result) ==
    [rt EXCEPT !.diagnostics[uri] =
        Some(RetainNotCompiler(get_diagnostics(rt, uri))
             \o [i \in 1..Len(result.errors) |->
                    DiagnosticError(result.errors[i].line, result.errors[i].column, 1,
                                    result.errors[i].message, "compiler")]
             \o [i \in 1..Len(result.warnings) |->
                    DiagnosticWarning(result.warnings[i].line, result.warnings[i].column,
                                      1, result.warnings[i].message, "compiler")])]

\* the Runtime after compile_document and what the call returns
compile_document(rt, uri, outcome) ==
    IF ~get_document_source(rt, uri).some \/ ~outcome.ok
    THEN [rt |-> rt, result |-> Fail]
    ELSE [rt |-> update_compilation_diagnostics(rt, uri, outcome.val),
          result |-> outcome]

\* a faulty close_document that forgets the diagnostics but keeps the source;
\* RuntimeSourceIsLatest must tell it from close_document
CloseDocumentKeepsSource(rt, uri) == [rt EXCEPT !.diagnostics[uri] = None]

close_document(rt, uri) ==
    [rt EXCEPT !.documents[uri] = None, !.diagnostics[uri] = None]

-----------------------------------------------------------------------------
(* ContextRuntimeHandle (src/src/ffi.rs), called from the threads Threads. *)
(* A step that takes the documents lock is one action; what open and       *)
(* update do between two locks is local to the calling thread.             *)

Threads == {1, 2}

MaxOps == 3
MaxRtOps == 3
MaxOffset == 1

\* the contents documents are opened with
OpenDocs == {<<"a">>, <<"\\","q">> \o StopTextTag}

\* the replacement texts of edits
NewTexts == {<<>>, <<"\\","q">>}

Offsets == 0..MaxOffset

DocumentState(uri, content, highlights, diagnostics) ==
    [uri |-> uri, content |-> content, highlights |-> highlights,
     diagnostics |-> diagnostics]

NoCall ==
    [op |-> "none", uri |-> "", found |-> FALSE, content |-> <<>>, highlights |-> <<>>,
     diagnostics |-> <<>>]

NoRet == [op |-> "none", uri |-> "", value |-> FALSE, found |-> FALSE, error |-> ""]

Returned(c, value, error) ==
    [op |-> c.op, uri |-> c.uri, value |-> value, found |-> c.found, error |-> error]

\* the condition "range.end <= content.len() && range.start <= range.end"
RangeValid(content, start, end) == end <= Len(content) /\ start <= end

\* a faulty replace_range that inserts new_text at start and removes nothing;
\* UpdateIsRangeReplacement must tell it from ReplaceRange
ReplaceRangeRemovesNothing(content, start, end, new_text) ==
    Slice(content, 0, start) \o new_text \o Slice(content, start, Len(content))

\* String::replace_range(start..end, new_text)
ReplaceRange(content, start, end, new_text) ==
    Slice(content, 0, start) \o new_text \o Slice(content, end, Len(content))

\* the highlights and diagnostics open and update compute on a private runtime
StateOf(rt, uri, salt) ==
    [highlights |-> HighlightsFfi(get_highlights(rt, uri, salt)),
     diagnostics |-> DiagnosticsFfi(get_diagnostics(rt, uri))]

\* ContextRuntime::new, open_document, get_highlights and get_diagnostics
ParsedState(uri, content, salt) ==
    StateOf(open_document(NewRuntime, uri, content), uri, salt)

\* the locals of a call of open or update once the content is parsed
Parsed(c, content, p) ==
    [c EXCEPT !.content = content, !.highlights = p.highlights,
              !.diagnostics = p.diagnostics]

InFlight(uri) == \E t \in Threads : pc[t] # "idle" /\ call[t].uri = uri

\* history: a call on uri starts
Started(t, op, uri, start, end, new_text) ==
    LET c == [t |-> t, op |-> op, start |-> start, end |-> end, new_text |-> new_text]
    IN  /\ ops' = ops + 1
        /\ IF InFlight(uri)
           THEN /\ batch' = [batch EXCEPT ![uri] = Append(@, c)]
                /\ quiet' = quiet
           ELSE /\ batch' = [batch EXCEPT ![uri] = <<c>>]
                /\ quiet' = [quiet EXCEPT ![uri] = documents[uri]]

handle_get_document_source(uri) ==
    IF documents[uri].some THEN Some(documents[uri].val.content) ELSE None

handle_get_highlights(uri) ==
    IF documents[uri].some THEN documents[uri].val.highlights ELSE <<>>

handle_get_diagnostics(uri) ==
    IF documents[uri].some THEN documents[uri].val.diagnostics ELSE <<>>

\* open, up to the documents.write(): the document is parsed on a private runtime
OpenCall(t, uri, content) ==
    /\ rt_ops = 0 /\ ops < MaxOps
    /\ pc[t] = "idle"
    /\ \E salt \in {0, 1} :
         call' = [call EXCEPT ![t] =
                    Parsed([NoCall EXCEPT !.op = "open", !.uri = uri, !.found = TRUE],
                           content, ParsedState(uri, content, salt))]
    /\ pc' = [pc EXCEPT ![t] = "write"]
    /\ Started(t, "open", uri, 0, 0, content)
    /\ UNCHANGED <<documents, ret, errors, notified>>
    /\ UNCHANGED <<parseVars, runtimeVars, functionVars, futureVars, lockVars, jobVars>>

\* open: docs.insert(uri, doc_state) under the write lock
OpenWrite(t) ==
    /\ pc[t] = "write" /\ call[t].op = "open"
    /\ documents' = [documents EXCEPT ![call[t].uri] =
                        Some(DocumentState(call[t].uri, call[t].content,
                                           call[t].highlights, call[t].diagnostics))]
    /\ pc' = [pc EXCEPT ![t] = "notify_highlights"]
    /\ UNCHANGED <<call, ret, errors, notified, ops, quiet, batch>>
    /\ UNCHANGED <<parseVars, runtimeVars, functionVars, futureVars, lockVars, jobVars>>

\* update, up to the documents.write(): the stored content is read and edited
\* under the read lock, then parsed on a private runtime
UpdateRead(t, uri, start, end, new_text) ==
    /\ rt_ops = 0 /\ ops < MaxOps
    /\ pc[t] = "idle"
    /\ LET found == documents[uri].some
           valid == found /\ RangeValid(documents[uri].val.content, start, end)
           c == [NoCall EXCEPT !.op = "update", !.uri = uri, !.found = found]
       IN  IF valid
           THEN LET content == ReplaceRange(documents[uri].val.content, start, end,
                                            new_text)
                IN  /\ \E salt \in {0, 1} :
                         call' = [call EXCEPT ![t] =
                                    Parsed(c, content, ParsedState(uri, content, salt))]
                    /\ pc' = [pc EXCEPT ![t] = "write"]
           ELSE /\ call' = [call EXCEPT ![t] = c]
                /\ pc' = [pc EXCEPT ![t] = "fail"]
    /\ Started(t, "update", uri, start, end, new_text)
    /\ UNCHANGED <<documents, ret, errors, notified>>
    /\ UNCHANGED <<parseVars, runtimeVars, functionVars, futureVars, lockVars, jobVars>>

\* a faulty write step of update that stores the new content and diagnostics
\* beside the highlights of the entry; CoherentEntries must tell it from UpdateWrite
UpdateWriteKeepsHighlights(t) ==
    /\ pc[t] = "write" /\ call[t].op = "update"
    /\ documents' =
         IF documents[call[t].uri].some
         THEN [documents EXCEPT ![call[t].uri] =
                 Some(DocumentState(@.val.uri, call[t].content, @.val.highlights,
                                    call[t].diagnostics))]
         ELSE documents
    /\ pc' = [pc EXCEPT ![t] = "notify_highlights"]
    /\ UNCHANGED <<call, ret, errors, notified, ops, quiet, batch>>
    /\ UNCHANGED <<parseVars, runtimeVars, functionVars, futureVars, lockVars, jobVars>>

\* update: if let Some(doc) = docs.get_mut(&uri) { ... } under the write lock
UpdateWrite(t) ==
    /\ pc[t] = "write" /\ call[t].op = "update"
    /\ documents' =
         IF documents[call[t].uri].some
         THEN [documents EXCEPT ![call[t].uri] =
                 Some(DocumentState(@.val.uri, call[t].content, call[t].highlights,
                                    call[t].diagnostics))]
         ELSE documents
    /\ pc' = [pc EXCEPT ![t] = "notify_highlights"]
    /\ UNCHANGED <<call, ret, errors, notified, ops, quiet, batch>>
    /\ UNCHANGED <<parseVars, runtimeVars, functionVars, futureVars, lockVars, jobVars>>

\* notify_highlights_updated
NotifyHighlights(t) ==
    /\ pc[t] = "notify_highlights"
    /\ notified' = [notified EXCEPT ![call[t].uri].highlights = Some(call[t].highlights)]
    /\ pc' = [pc EXCEPT ![t] = "notify_diagnostics"]
    /\ UNCHANGED <<documents, call, ret, errors, ops, quiet, batch>>
    /\ UNCHANGED <<parseVars, runtimeVars, functionVars, futureVars, lockVars, jobVars>>

\* notify_diagnostics_updated, and open or update returns true
NotifyDiagnostics(t) ==
    /\ pc[t] = "notify_diagnostics"
    /\ notified' = [notified EXCEPT ![call[t].uri].diagnostics =
                                        Some(call[t].diagnostics)]
    /\ ret' = [ret EXCEPT ![t] = Returned(call[t], TRUE, "")]
    /\ call' = [call EXCEPT ![t] = NoCall]
    /\ pc' = [pc EXCEPT ![t] = "idle"]
    /\ UNCHANGED <<documents, errors, ops, quiet, batch>>
    /\ UNCHANGED <<parseVars, runtimeVars, functionVars, futureVars, lockVars, jobVars>>

\* a faulty error for update's else branch; UpdateOnClosedUri must tell it from
\* UpdateError
UpdateErrorUnavailable(uri) == [kind |-> "Unavailable", uri |-> uri]

\* the error of update's else branch
UpdateError(uri) == [kind |-> "DocumentNotFound", uri |-> uri]

\* update: no updated content; notify_error and return false
UpdateFail(t) ==
    /\ pc[t] = "fail"
    /\ errors' = Append(errors, UpdateError(call[t].uri))
    /\ ret' = [ret EXCEPT ![t] = Returned(call[t], FALSE, UpdateError(call[t].uri).kind)]
    /\ call' = [call EXCEPT ![t] = NoCall]
    /\ pc' = [pc EXCEPT ![t] = "idle"]
    /\ UNCHANGED <<documents, notified, ops, quiet, batch>>
    /\ UNCHANGED <<parseVars, runtimeVars, functionVars, futureVars, lockVars, jobVars>>

\* a faulty docs.remove that removes nothing; CloseDiscards must tell it from
\* CloseRemove
CloseRemoveKeepsEntry(docs, uri) == docs

\* close: docs.remove(&uri) under the write lock
CloseRemove(docs, uri) == [docs EXCEPT ![uri] = None]

Close(t, uri) ==
    /\ rt_ops = 0 /\ ops < MaxOps
    /\ pc[t] = "idle"
    /\ documents' = CloseRemove(documents, uri)
    /\ ret' = [ret EXCEPT ![t] =
                 Returned([NoCall EXCEPT !.op = "close", !.uri = uri,
                                         !.found = documents[uri].some], TRUE, "")]
    /\ Started(t, "close", uri, 0, 0, <<>>)
    /\ UNCHANGED <<pc, call, errors, notified>>
    /\ UNCHANGED <<parseVars, runtimeVars, functionVars, futureVars, lockVars, jobVars>>

InitHandle ==
    /\ documents = [u \in Uris |-> None]
    /\ pc = [t \in Threads |-> "idle"]
    /\ call = [t \in Threads |-> NoCall]
    /\ ret = [t \in Threads |-> NoRet]
    /\ errors = <<>>
    /\ notified = [u \in Uris |-> [highlights |-> None, diagnostics |-> None]]
    /\ ops = 0
    /\ quiet = [u \in Uris |-> None]
    /\ batch = [u \in Uris |-> <<>>]

-----------------------------------------------------------------------------
(* A Runtime driven directly, as in tests/runtime.rs *)

InitRuntime ==
    /\ runtime = NewRuntime
    /\ rt_last = [u \in Uris |-> None]
    /\ rt_ret = [op |-> "none", uri |-> "", before |-> <<>>]
    /\ rt_ops = 0

RtOpen(uri, content) ==
    /\ ops = 0 /\ rt_ops < MaxRtOps
    /\ runtime' = open_document(runtime, uri, content)
    /\ rt_last' = [rt_last EXCEPT ![uri] = Some(content)]
    /\ rt_ret' = [op |-> "open_document", uri |-> uri,
                  before |-> get_diagnostics(runtime, uri)]
    /\ rt_ops' = rt_ops + 1
    /\ UNCHANGED <<parseVars, handleVars, functionVars, futureVars, lockVars, jobVars>>

RtUpdate(uri, content) ==
    /\ ops = 0 /\ rt_ops < MaxRtOps
    /\ runtime' = update_document(runtime, uri, content)
    /\ rt_last' = [rt_last EXCEPT ![uri] = Some(content)]
    /\ rt_ret' = [op |-> "update_document", uri |-> uri,
                  before |-> get_diagnostics(runtime, uri)]
    /\ rt_ops' = rt_ops + 1
    /\ UNCHANGED <<parseVars, handleVars, functionVars, futureVars, lockVars, jobVars>>

RtClose(uri) ==
    /\ ops = 0 /\ rt_ops < MaxRtOps
    /\ runtime' = close_document(runtime, uri)
    /\ rt_last' = [rt_last EXCEPT ![uri] = None]
    /\ rt_ret' = [op |-> "close_document", uri |-> uri,
                  before |-> get_diagnostics(runtime, uri)]
    /\ rt_ops' = rt_ops + 1
    /\ UNCHANGED <<parseVars, handleVars, functionVars, futureVars, lockVars, jobVars>>

RtCompile(uri, outcome) ==
    /\ ops = 0 /\ rt_ops < MaxRtOps
    /\ runtime' = compile_document(runtime, uri, outcome).rt
    /\ rt_ret' = [op |-> "compile_document", uri |-> uri,
                  before |-> get_diagnostics(runtime, uri)]
    /\ rt_ops' = rt_ops + 1
    /\ UNCHANGED rt_last
    /\ UNCHANGED <<parseVars, handleVars, functionVars, futureVars, lockVars, jobVars>>

UnknownCommand == <<"\\","u","n","k","n","o","w","n","c","o","m","m","a","n","d">>

\* the contents a Runtime is given
RuntimeDocs ==
    OpenDocs \cup {<<"\\","q">>, StartTextTag \o <<"\\","q">> \o StopTextTag,
                   StartTextTag \o UnknownCommand \o StopTextTag,
                   StartTextTag \o <<"\\","b","f","{">> \o UnknownCommand \o <<"}">>
                       \o StopTextTag,
                   StartTextTag
                       \o <<"\\","q","[","k","=","v",",","j","j","=","w","]","{","a","}">>
                       \o StopTextTag}

-----------------------------------------------------------------------------
(* The public parser functions of src/src/parser.rs applied to an input of *)
(* their own, as the unit tests of src/src/lib.rs do: the input is typed   *)
(* in at most MaxTokens pieces of Tokens.                                  *)

MaxTokens == 4

Tokens ==
    {<<"\\","q">>, <<"\\","b","f">>, <<"\\","i","t","e","m">>,
     <<"[","a","]">>, <<"[","k","=","v","]">>, <<"{">>, <<"}">>, <<"{","a","}">>,
     <<"a">>, <<" ">>, <<NL>>,
     <<"\\","s","t","a","r","t","q">>, <<"\\","s","t","o","p","q">>,
     <<"\\","s","t","a","r","t","r">>, <<"\\","s","t","o","p","r">>}

InitFunctions ==
    /\ fn_input = <<>>
    /\ fn_pieces = 0
    /\ fn_typed = <<>>
    /\ fn_applied = "none"
    /\ fn_result = Fail

\* the input grows by one piece
TypeToken(p) ==
    /\ fn_applied = "none"
    /\ fn_pieces < MaxTokens
    /\ fn_input' = fn_input \o p
    /\ fn_pieces' = fn_pieces + 1
    /\ UNCHANGED <<fn_typed, fn_applied, fn_result>>
    /\ UNCHANGED <<parseVars, handleVars, runtimeVars, futureVars, lockVars, jobVars>>

\* parser::parse_command(LocatedSpan::new(input))
CommandStep ==
    /\ fn_applied = "none"
    /\ fn_result' = parse_command(NewSpan(fn_input))
    /\ fn_applied' = "parse_command"
    /\ UNCHANGED <<fn_input, fn_pieces, fn_typed>>
    /\ UNCHANGED <<parseVars, handleVars, runtimeVars, futureVars, lockVars, jobVars>>

\* parser::parse_startstop(LocatedSpan::new(input))
StartStopStep ==
    /\ fn_applied = "none"
    /\ fn_result' = parse_startstop(NewSpan(fn_input))
    /\ fn_applied' = "parse_startstop"
    /\ UNCHANGED <<fn_input, fn_pieces, fn_typed>>
    /\ UNCHANGED <<parseVars, handleVars, runtimeVars, futureVars, lockVars, jobVars>>

\* An option list is typed pair by pair, at most MaxPairs pairs: a key, "=" and
\* a value or the bare key, with or without blanks around them.
MaxPairs == 3

OptionKeys == {<<"k">>, <<"j">>}

OptionValues == {<<"v">>, <<"w","=","v">>, <<>>}

Blanks == {<<>>, <<" ">>}

\* the text of one pair
PairText(key, bare, value, pad) ==
    pad \o key \o pad \o (IF bare THEN <<>> ELSE <<"=">> \o pad \o value \o pad)

\* the option list grows by one pair, after a comma when it is not the first
TypePair(key, bare, value, pad) ==
    /\ fn_applied = "none"
    /\ fn_pieces < MaxPairs
    /\ fn_input' = fn_input \o (IF fn_pieces > 0 THEN <<",">> ELSE <<>>)
                            \o PairText(key, bare, value, pad)
    /\ fn_pieces' = fn_pieces + 1
    /\ fn_typed' = Append(fn_typed, [key |-> key, bare |-> bare, value |-> value])
    /\ UNCHANGED <<fn_applied, fn_result>>
    /\ UNCHANGED <<parseVars, handleVars, runtimeVars, futureVars, lockVars, jobVars>>

\* parser::parse_options on the option list in its brackets
OptionsStep ==
    /\ fn_applied = "none"
    /\ fn_result' = parse_options(NewSpan(<<"[">> \o fn_input \o <<"]">>))
    /\ fn_applied' = "parse_options"
    /\ UNCHANGED <<fn_input, fn_pieces, fn_typed>>
    /\ UNCHANGED <<parseVars, handleVars, runtimeVars, futureVars, lockVars, jobVars>>

-----------------------------------------------------------------------------
(* AsyncCompilationFuture (src/src/ffi.rs): the flags result, ready and    *)
(* cancelled shared by the caller and the task that new spawns on the      *)
(* tokio runtime.  The task is one thread; each await and each access to a *)
(* shared flag ends a step.  A CompileResultFfi is [success, log].         *)

CompileResultFfiError(msg) == [success |-> FALSE, log |-> msg]

\* what the remote server or the local compiler make of the document
RemoteResults ==
    {[success |-> TRUE, log |-> "remote"],
     CompileResultFfiError("Failed to parse remote async compilation response"),
     CompileResultFfiError("Remote async compilation failed with status"),
     CompileResultFfiError("Failed to send remote async compilation request")}

LocalResults ==
    {[success |-> TRUE, log |-> "local"],
     [success |-> FALSE, log |-> "local"],
     CompileResultFfiError("Local async compilation failed"),
     CompileResultFfiError("Async compilation task failed")}

\* the caller polls at most MaxPolls times
MaxPolls == 3

InitFuture ==
    /\ future = [made |-> FALSE, remote |-> FALSE, result |-> None, ready |-> FALSE,
                 cancelled |-> FALSE]
    /\ task = "none"
    /\ ffi_result = None
    /\ polled = <<>>

is_ready(f) == f.ready

\* a faulty poll_result that hands out the result slot whatever ready says;
\* PollFollowsReady must tell it from poll_result
PollResultUnguarded(f) == f.result

poll_result(f) == IF is_ready(f) THEN f.result ELSE None

\* AsyncCompilationFuture::new: the three flags, and the task is spawned
AsyncCompilationFutureNew(remote) ==
    /\ ~future.made
    /\ future' = [made |-> TRUE, remote |-> remote, result |-> None, ready |-> FALSE,
                  cancelled |-> FALSE]
    /\ task' = "spawned"
    /\ UNCHANGED <<ffi_result, polled>>
    /\ UNCHANGED <<parseVars, handleVars, runtimeVars, functionVars, lockVars, jobVars>>

\* the task begins: if cancelled_clone.load() { return; }
TaskStart ==
    /\ task = "spawned"
    /\ task' = IF future.cancelled THEN "returned"
               ELSE IF future.remote THEN "remote" ELSE "blocking"
    /\ UNCHANGED <<future, ffi_result, polled>>
    /\ UNCHANGED <<parseVars, handleVars, runtimeVars, functionVars, lockVars, jobVars>>

\* request.send().await and response.json().await
TaskRemote(r) ==
    /\ task = "remote"
    /\ ffi_result' = Some(r)
    /\ task' = "compiled"
    /\ UNCHANGED <<future, polled>>
    /\ UNCHANGED <<parseVars, handleVars, runtimeVars, functionVars, lockVars, jobVars>>

\* spawn_blocking(..).await: the closure looks at cancelled before it compiles
TaskBlocking(r) ==
    /\ task = "blocking"
    /\ ffi_result' = IF future.cancelled
                     THEN Some(CompileResultFfiError("Compilation cancelled"))
                     ELSE Some(r)
    /\ task' = "compiled"
    /\ UNCHANGED <<future, polled>>
    /\ UNCHANGED <<parseVars, handleVars, runtimeVars, functionVars, lockVars, jobVars>>

\* *result_guard = Some(ffi_result.clone())
TaskStore ==
    /\ task = "compiled"
    /\ future' = [future EXCEPT !.result = ffi_result]
    /\ task' = "stored"
    /\ UNCHANGED <<ffi_result, polled>>
    /\ UNCHANGED <<parseVars, handleVars, runtimeVars, functionVars, lockVars, jobVars>>

\* callback.on_compilation_completed(..), then ready_clone.store(true)
TaskReady ==
    /\ task = "stored"
    /\ future' = [future EXCEPT !.ready = TRUE]
    /\ task' = "done"
    /\ UNCHANGED <<ffi_result, polled>>
    /\ UNCHANGED <<parseVars, handleVars, runtimeVars, functionVars, lockVars, jobVars>>

\* cancel(): cancelled.store(true); true
Cancel ==
    /\ future.made
    /\ future' = [future EXCEPT !.cancelled = TRUE]
    /\ UNCHANGED <<task, ffi_result, polled>>
    /\ UNCHANGED <<parseVars, handleVars, runtimeVars, functionVars, lockVars, jobVars>>

\* the caller asks is_ready() and poll_result()
Poll ==
    /\ future.made /\ Len(polled) < MaxPolls
    /\ polled' = Append(polled, [ready |-> is_ready(future),
                                 result |-> poll_result(future)])
    /\ UNCHANGED <<future, task, ffi_result>>
    /\ UNCHANGED <<parseVars, handleVars, runtimeVars, functionVars, lockVars, jobVars>>

-----------------------------------------------------------------------------
(* The RwLock around ContextRuntimeHandle.documents (src/src/ffi.rs), lock *)
(* by lock: where each thread is in open, update or close, and which lock  *)
(* it holds there.  What the documents hold is left out; present is the    *)
(* set of their keys.                                                      *)

InitLocks ==
    /\ lock = [readers |-> {}, writer |-> 0]
    /\ step = [t \in Threads |-> "idle"]
    /\ doing = [t \in Threads |-> [op |-> "none", uri |-> ""]]
    /\ present = {}

\* open begins: ContextRuntime::new and runtime.open_document, no lock taken
BeginOpen(t, uri) ==
    /\ step[t] = "idle"
    /\ step' = [step EXCEPT ![t] = "parsing"]
    /\ doing' = [doing EXCEPT ![t] = [op |-> "open", uri |-> uri]]
    /\ UNCHANGED <<lock, present>>
    /\ UNCHANGED <<parseVars, handleVars, runtimeVars, functionVars, futureVars, jobVars>>

\* update begins: self.documents.read(), granted when no thread writes
BeginUpdate(t, uri) ==
    /\ step[t] = "idle"
    /\ lock.writer = 0
    /\ lock' = [lock EXCEPT !.readers = @ \cup {t}]
    /\ step' = [step EXCEPT ![t] = "reading"]
    /\ doing' = [doing EXCEPT ![t] = [op |-> "update", uri |-> uri]]
    /\ UNCHANGED present
    /\ UNCHANGED <<parseVars, handleVars, runtimeVars, functionVars, futureVars, jobVars>>

\* a faulty update whose read guard lives on after the block that reads;
\* LockOnlyForSwap must tell it from ReadContent
ReadContentKeepsLock(t, valid) ==
    /\ step[t] = "reading"
    /\ step' = [step EXCEPT ![t] =
                  IF doing[t].uri \in present /\ valid THEN "parsing" ELSE "failing"]
    /\ UNCHANGED <<lock, doing, present>>
    /\ UNCHANGED <<parseVars, handleVars, runtimeVars, functionVars, futureVars, jobVars>>

\* update under the read lock: the content is cloned and edited when the uri is
\* there and the range valid; the guard is dropped at the end of the block
ReadContent(t, valid) ==
    /\ step[t] = "reading"
    /\ lock' = [lock EXCEPT !.readers = @ \ {t}]
    /\ step' = [step EXCEPT ![t] =
                  IF doing[t].uri \in present /\ valid THEN "parsing" ELSE "failing"]
    /\ UNCHANGED <<doing, present>>
    /\ UNCHANGED <<parseVars, handleVars, runtimeVars, functionVars, futureVars, jobVars>>

\* the private runtime has parsed the content and computed the highlights and
\* the diagnostics, or open_document returned an error
ParseContent(t, ok) ==
    /\ step[t] = "parsing"
    /\ step' = [step EXCEPT ![t] = IF ok THEN "acquiring" ELSE "failing"]
    /\ UNCHANGED <<lock, doing, present>>
    /\ UNCHANGED <<parseVars, handleVars, runtimeVars, functionVars, futureVars, jobVars>>

\* close begins
BeginClose(t, uri) ==
    /\ step[t] = "idle"
    /\ step' = [step EXCEPT ![t] = "acquiring"]
    /\ doing' = [doing EXCEPT ![t] = [op |-> "close", uri |-> uri]]
    /\ UNCHANGED <<lock, present>>
    /\ UNCHANGED <<parseVars, handleVars, runtimeVars, functionVars, futureVars, jobVars>>

\* self.documents.write(), granted when no thread reads or writes
AcquireWrite(t) ==
    /\ step[t] = "acquiring"
    /\ lock.writer = 0 /\ lock.readers = {}
    /\ lock' = [lock EXCEPT !.writer = t]
    /\ step' = [step EXCEPT ![t] = "writing"]
    /\ UNCHANGED <<doing, present>>
    /\ UNCHANGED <<parseVars, handleVars, runtimeVars, functionVars, futureVars, jobVars>>

\* under the write lock: docs.insert, the assignments through docs.get_mut, or
\* docs.remove; the guard is dropped at the end of the block
SwapState(t) ==
    /\ step[t] = "writing"
    /\ present' = CASE doing[t].op = "open" -> present \cup {doing[t].uri}
                    [] doing[t].op = "close" -> present \ {doing[t].uri}
                    [] OTHER -> present
    /\ lock' = [lock EXCEPT !.writer = 0]
    /\ step' = [step EXCEPT ![t] = IF doing[t].op = "close" THEN "idle" ELSE "notifying"]
    /\ UNCHANGED doing
    /\ UNCHANGED <<parseVars, handleVars, runtimeVars, functionVars, futureVars, jobVars>>

\* the notifications, and open or update returns
Returns(t) ==
    /\ step[t] \in {"notifying", "failing"}
    /\ step' = [step EXCEPT ![t] = "idle"]
    /\ UNCHANGED <<lock, doing, present>>
    /\ UNCHANGED <<parseVars, handleVars, runtimeVars, functionVars, futureVars, jobVars>>

-----------------------------------------------------------------------------
(* The compile jobs of ContextRuntimeHandle (src/src/ffi.rs): compile      *)
(* registers a job and spawns its task on the tokio runtime;               *)
(* cancel_compilation removes a job id from active_jobs.  A job id is a    *)
(* fresh uuid: the ids are handed out in order, at most MaxJobs of them.   *)

MaxJobs == 2

JobIds == 1..MaxJobs

\* what a compilation comes to: the result of the compiler or of the server, or
\* CompileResultFfi::error of what went wrong
JobResults ==
    {[success |-> TRUE, log |-> "compiled"], CompileResultFfiError("compilation failed")}

NoJob == [uri |-> "", at |-> "none", result |-> None]

InitJobs ==
    /\ active_jobs = {}
    /\ job = [j \in JobIds |-> NoJob]
    /\ completions = <<>>
    /\ cancel_ret = [job |-> 0, value |-> FALSE]
    /\ withdrawn = {}

get_active_jobs == active_jobs

\* compile(uri): without a source, notify_error and return; else jobs.insert and
\* the task is spawned.  The job id is returned either way.
Compile(j, uri) ==
    /\ rt_ops = 0
    /\ job[j].at = "none" /\ \A i \in 1..(j - 1) : job[i].at # "none"
    /\ IF handle_get_document_source(uri).some
       THEN /\ active_jobs' = active_jobs \cup {j}
            /\ job' = [job EXCEPT ![j] = [uri |-> uri, at |-> "spawned", result |-> None]]
            /\ UNCHANGED errors
       ELSE /\ errors' = Append(errors, UpdateError(uri))
            /\ job' = [job EXCEPT ![j] = [uri |-> uri, at |-> "rejected", result |-> None]]
            /\ UNCHANGED active_jobs
    /\ UNCHANGED <<completions, cancel_ret, withdrawn>>
    /\ UNCHANGED <<documents, pc, call, ret, notified, ops, quiet, batch>>
    /\ UNCHANGED <<parseVars, runtimeVars, functionVars, futureVars, lockVars>>

\* the task: cancelled is a flag of its own that nothing sets, so the task goes
\* on to perform_remote_compilation or perform_local_compilation
JobCompile(j, r) ==
    /\ job[j].at = "spawned"
    /\ job' = [job EXCEPT ![j].at = "compiled", ![j].result = Some(r)]
    /\ UNCHANGED <<active_jobs, completions, cancel_ret, withdrawn>>
    /\ UNCHANGED <<parseVars, handleVars, runtimeVars, functionVars, futureVars, lockVars>>

\* a faulty task that leaves its job id in active_jobs; JobRegistry must tell it
\* from JobRemove
JobRemoveKeepsId(j) ==
    /\ job[j].at = "compiled"
    /\ job' = [job EXCEPT ![j].at = "removed"]
    /\ UNCHANGED <<active_jobs, completions, cancel_ret, withdrawn>>
    /\ UNCHANGED <<parseVars, handleVars, runtimeVars, functionVars, futureVars, lockVars>>

\* the task: jobs.remove(&job_id_for_async)
JobRemove(j) ==
    /\ job[j].at = "compiled"
    /\ active_jobs' = active_jobs \ {j}
    /\ job' = [job EXCEPT ![j].at = "removed"]
    /\ UNCHANGED <<completions, cancel_ret, withdrawn>>
    /\ UNCHANGED <<parseVars, handleVars, runtimeVars, functionVars, futureVars, lockVars>>

\* the task: callback.on_compilation_completed(job.uri, ffi_result)
JobNotify(j) ==
    /\ job[j].at = "removed"
    /\ completions' = Append(completions, [job |-> j, uri |-> job[j].uri,
                                           result |-> job[j].result.val])
    /\ job' = [job EXCEPT ![j].at = "done"]
    /\ UNCHANGED <<active_jobs, cancel_ret, withdrawn>>
    /\ UNCHANGED <<parseVars, handleVars, runtimeVars, functionVars, futureVars, lockVars>>

\* cancel_compilation(job_id): jobs.remove(&job_id).is_some()
CancelCompilation(j) ==
    /\ rt_ops = 0
    /\ active_jobs' = active_jobs \ {j}
    /\ cancel_ret' = [job |-> j, value |-> j \in active_jobs]
    /\ withdrawn' = IF j \in active_jobs THEN withdrawn \cup {j} ELSE withdrawn
    /\ UNCHANGED <<job, completions>>
    /\ UNCHANGED <<parseVars, handleVars, runtimeVars, functionVars, futureVars, lockVars>>

-----------------------------------------------------------------------------
(* Specifications *)

Init ==
    /\ InitHandle
    /\ InitRuntime
    /\ InitParse
    /\ InitFunctions
    /\ InitFuture
    /\ InitLocks
    /\ InitJobs

NextHandle ==
    \/ \E t \in Threads, uri \in Uris, content \in OpenDocs : OpenCall(t, uri, content)
    \/ \E t \in Threads : OpenWrite(t)
    \/ \E t \in Threads, uri \in Uris, start \in Offsets, end \in Offsets,
          new_text \in NewTexts : UpdateRead(t, uri, start, end, new_text)
    \/ \E t \in Threads : UpdateWrite(t)
    \/ \E t \in Threads : NotifyHighlights(t)
    \/ \E t \in Threads : NotifyDiagnostics(t)
    \/ \E t \in Threads : UpdateFail(t)
    \/ \E t \in Threads, uri \in Uris : Close(t, uri)

NextRuntime ==
    \/ \E uri \in Uris, content \in RuntimeDocs : RtOpen(uri, content)
    \/ \E uri \in Uris, content \in RuntimeDocs : RtUpdate(uri, content)
    \/ \E uri \in Uris : RtClose(uri)
    \/ \E uri \in Uris, outcome \in CompilerOutcomes : RtCompile(uri, outcome)

Next == NextHandle \/ NextRuntime

\* the session layer: a ContextRuntimeHandle shared by the threads, or a Runtime
\* driven directly (the two share no state)
Spec == Init /\ [][Next]_vars

NextParse ==
    \/ \E p \in Pieces : TypePiece(p)
    \/ ParseStep
    \/ BuildStep
    \/ HighlightStep

\* a Runtime driven directly, alone
SpecRuntime == Init /\ [][NextRuntime]_vars

\* the parser pipeline on every text typed in at most MaxPieces pieces
SpecParse == Init /\ [][NextParse]_vars

NextFunctions ==
    \/ \E p \in Tokens : TypeToken(p)
    \/ CommandStep
    \/ StartStopStep

\* parse_command and parse_startstop on every input typed in at most MaxTokens
\* pieces
SpecFunctions == Init /\ [][NextFunctions]_vars

NextOptions ==
    \/ \E key \in OptionKeys, bare \in BOOLEAN, value \in OptionValues, pad \in Blanks :
          TypePair(key, bare, value, pad)
    \/ OptionsStep

\* parse_options on every option list of at most MaxPairs pairs
SpecOptions == Init /\ [][NextOptions]_vars

NextTask ==
    \/ TaskStart
    \/ \E r \in RemoteResults : TaskRemote(r)
    \/ \E r \in LocalResults : TaskBlocking(r)
    \/ TaskStore
    \/ TaskReady

NextFuture ==
    \/ \E remote \in BOOLEAN : AsyncCompilationFutureNew(remote)
    \/ NextTask
    \/ Cancel
    \/ Poll

NextLocks ==
    \/ \E t \in Threads, uri \in Uris : BeginOpen(t, uri)
    \/ \E t \in Threads, uri \in Uris : BeginUpdate(t, uri)
    \/ \E t \in Threads, uri \in Uris : BeginClose(t, uri)
    \/ \E t \in Threads, valid \in BOOLEAN : ReadContent(t, valid)
    \/ \E t \in Threads, ok \in BOOLEAN : ParseContent(t, ok)
    \/ \E t \in Threads : AcquireWrite(t)
    \/ \E t \in Threads : SwapState(t)
    \/ \E t \in Threads : Returns(t)

\* the threads in open, update and close, lock by lock
SpecLocks == Init /\ [][NextLocks]_vars

NextJobTask ==
    \/ \E j \in JobIds, r \in JobResults : JobCompile(j, r)
    \/ \E j \in JobIds : JobRemove(j)
    \/ \E j \in JobIds : JobNotify(j)

\* one thread opens and closes one document; the jobs are for it and for a uri
\* that is never open
NextJobs ==
    \/ OpenCall(1, "u1", <<"a">>)
    \/ OpenWrite(1)
    \/ NotifyHighlights(1)
    \/ NotifyDiagnostics(1)
    \/ Close(1, "u1")
    \/ \E j \in JobIds, uri \in Uris : Compile(j, uri)
    \/ \E j \in JobIds : CancelCompilation(j)
    \/ NextJobTask

\* documents opened and closed, compile jobs and their cancellation
SpecJobs == Init /\ [][NextJobs]_vars

\* the tokio runtime runs the task of a job to its end, and the server and the
\* compiler answer
SpecJobsFair == Init /\ [][NextJobs]_vars /\ WF_vars(NextJobTask)

\* one AsyncCompilationFuture, its task and its caller
SpecFuture == Init /\ [][NextFuture]_vars

\* the tokio runtime runs a spawned task to its end, and the server and the
\* compiler answer
SpecFutureFair == Init /\ [][NextFuture]_vars /\ WF_vars(NextTask)


-----------------------------------------------------------------------------
(* Properties of the syntax tree and the parser, under SpecParse *)

\* C1: losslessness: the texts of the tokens of the tree built by ast_to_rowan,
\* concatenated in document order, are exactly the input text.
Lossless == stage \in {"built", "done"} => TreeText(tree) = text

\* the flat node sequence of a text: many0(parse_node) on a span of its own
FlatNodes(s) == Many0("node", NewSpan(s)).val

\* C8: fragment mode: an input with neither \starttext nor \startdocument parses to
\* a Document with an empty preamble whose body is the flat node sequence of the
\* whole input.
FragmentMode ==
    (/\ stage # "input"
     /\ ~Contains(text, StartTextTag)
     /\ ~Contains(text, StartDocumentTag))
    => (/\ ast.ok
        /\ ast.val.preamble = <<>>
        /\ ast.val.body = FlatNodes(text))

\* the first start marker of a text: [found, at, len, stop], the earlier of the
\* first \starttext and the first \startdocument, with the stop marker it asks for
FirstMarkerOf(t, d) ==
    IF t >= 0 /\ (d < 0 \/ t < d)
    THEN [found |-> TRUE, at |-> t, len |-> Len(StartTextTag), stop |-> StopTextTag]
    ELSE IF d >= 0
    THEN [found |-> TRUE, at |-> d, len |-> Len(StartDocumentTag),
          stop |-> StopDocumentTag]
    ELSE [found |-> FALSE, at |-> 0, len |-> 0, stop |-> <<>>]

FirstMarker(s) ==
    FirstMarkerOf(FindFrom(s, 0, StartTextTag), FindFrom(s, 0, StartDocumentTag))

\* the frame a marker m puts on the text s: the text before the marker, the text
\* after it, and the offset in the latter of the matching stop marker (-1 if none)
FrameOf(s, m) ==
    [preamble |-> Slice(s, 0, m.at),
     after |-> Slice(s, m.at + m.len, Len(s)),
     stop_at |-> ParseUntilFrom(Slice(s, m.at + m.len, Len(s)), 0, m.stop)]

\* the framing of C10 for the frame f of the text: the parse succeeds, the preamble
\* is the text before the marker and the body the text up to the matching stop
\* (directly, or as the content of the document environment)
Framed(f) ==
    /\ ast.ok
    /\ ast.val.preamble = FlatNodes(f.preamble)
    /\ \/ ast.val.body = FlatNodes(Slice(f.after, 0, f.stop_at))
       \/ /\ Len(ast.val.body) = 1
          /\ ast.val.body[1].type = "StartStop"
          /\ ast.val.body[1].name = DocumentName
          /\ ast.val.body[1].content = FlatNodes(Slice(f.after, 0, f.stop_at))

\* C10: document framing: when the first marker of the input is \starttext or
\* \startdocument and its matching stop marker is present, the parse succeeds
\* with the text before the marker as preamble and the text between the marker
\* and the matching stop as body.
DocumentFraming ==
    (/\ stage # "input"
     /\ FirstMarker(text).found
     /\ FrameOf(text, FirstMarker(text)).stop_at >= 0)
    => Framed(FrameOf(text, FirstMarker(text)))

-----------------------------------------------------------------------------
(* Properties of the session layer, under Spec *)

\* the edit of a call of update, applied to a content (an invalid range edits nothing)
ApplyEdit(content, e) ==
    IF RangeValid(content, e.start, e.end)
    THEN ReplaceRange(content, e.start, e.end, e.new_text)
    ELSE content

\* C2: concurrent updates of one uri are serialized: once two overlapping update
\* calls on an open uri have both returned, the stored content is the result of
\* applying the two edits one after the other, in one of the two orders.
UpdatesSerialized ==
    \A u \in Uris :
        (/\ ~InFlight(u)
         /\ Len(batch[u]) = 2
         /\ batch[u][1].op = "update"
         /\ batch[u][2].op = "update"
         /\ quiet[u].some)
        => handle_get_document_source(u) \in
             {Some(ApplyEdit(ApplyEdit(quiet[u].val.content, batch[u][1]), batch[u][2])),
              Some(ApplyEdit(ApplyEdit(quiet[u].val.content, batch[u][2]), batch[u][1]))}

\* C3: on a Runtime, get_document_source(uri) is the content of the latest
\* open_document or update_document of the uri that no close_document followed,
\* and None otherwise.
RuntimeSourceIsLatest ==
    \A u \in Uris : get_document_source(runtime, u) = rt_last[u]

\* a Runtime after an open, an update and a close, with one uri closed and the
\* other holding its latest content
RuntimeLifecycleSeen ==
    /\ rt_ops = MaxRtOps
    /\ rt_ret.op = "close_document"
    /\ \E u \in Uris : rt_ret.uri = u /\ get_document_source(runtime, u) = None
    /\ \E u \in Uris : /\ get_document_source(runtime, u).some
                      /\ get_document_source(runtime, u).val = <<"\\", "q">>

\* old[0..start] ++ new_text ++ old[end..], byte by byte
Spliced(old, start, end, new_text) ==
    [i \in 1..(start + Len(new_text) + (Len(old) - end)) |->
        IF i <= start THEN old[i]
        ELSE IF i <= start + Len(new_text) THEN new_text[i - start]
        ELSE old[end + (i - start - Len(new_text))]]

\* the only call on the uri u since it was last quiet is an update that returned
\* true
UpdatedAlone(u) ==
    /\ ~InFlight(u)
    /\ quiet[u].some
    /\ Len(batch[u]) = 1
    /\ batch[u][1].op = "update"
    /\ ret[batch[u][1].t].op = "update"
    /\ ret[batch[u][1].t].uri = u
    /\ ret[batch[u][1].t].value

\* C4: a successful update(uri, start, end, new_text) on an open uri whose stored
\* source is old leaves old[0..start] ++ new_text ++ old[end..] as the source.
UpdateIsRangeReplacement ==
    \A u \in Uris :
        UpdatedAlone(u)
        => /\ handle_get_document_source(u).some
           /\ handle_get_document_source(u).val =
                Spliced(quiet[u].val.content, batch[u][1].start, batch[u][1].end,
                        batch[u][1].new_text)

\* an update that returned true after replacing a non-empty range by a non-empty
\* text
RangeReplaced ==
    \E u \in Uris :
        /\ UpdatedAlone(u)
        /\ batch[u][1].start < batch[u][1].end
        /\ batch[u][1].new_text # <<>>

\* C5: update on a uri that is not open returns false, reports
\* DocumentNotFound{uri} through on_error and leaves the session map unchanged.
UpdateOnClosedUri ==
    [][\A t \in Threads :
         /\ (/\ pc[t] = "idle"
             /\ pc'[t] # "idle"
             /\ call'[t].op = "update"
             /\ ~documents[call'[t].uri].some)
            => (pc'[t] = "fail" /\ documents' = documents)
         /\ (pc[t] = "fail" /\ pc'[t] = "idle" /\ ~call[t].found)
            => (/\ ret'[t].op = "update"
                /\ ret'[t].uri = call[t].uri
                /\ ret'[t].value = FALSE
                /\ errors' = Append(errors, [kind |-> "DocumentNotFound",
                                             uri |-> call[t].uri])
                /\ documents' = documents)]_vars

\* an update on a uri that was not open has returned, while another uri is open
UpdateOnClosedUriReturned ==
    \E t \in Threads :
        /\ ret[t].op = "update"
        /\ ~ret[t].found
        /\ ~ret[t].value
        /\ ~documents[ret[t].uri].some
        /\ errors # <<>>
        /\ \E u \in Uris : documents[u].some

\* C6: update with a range that is out of bounds for the stored text of an open
\* uri fails with a range-validity error, distinct from DocumentNotFound.
InvalidRangeIsReported ==
    \A t \in Threads :
        (ret[t].op = "update" /\ ret[t].found /\ ~ret[t].value)
        => ret[t].error # "DocumentNotFound"

\* what a close of uri discards and what it leaves unchanged, on the handle
HandleClosed(uri) ==
    /\ handle_get_document_source(uri)' = None
    /\ handle_get_highlights(uri)' = <<>>
    /\ handle_get_diagnostics(uri)' = <<>>
    /\ \A v \in Uris \ {uri} :
         /\ handle_get_document_source(v)' = handle_get_document_source(v)
         /\ handle_get_highlights(v)' = handle_get_highlights(v)
         /\ handle_get_diagnostics(v)' = handle_get_diagnostics(v)

\* the same on a Runtime
RuntimeClosed(uri) ==
    /\ get_document_source(runtime', uri) = None
    /\ get_diagnostics(runtime', uri) = <<>>
    /\ \A salt \in {0, 1} : get_highlights(runtime', uri, salt) = <<>>
    /\ \A v \in Uris \ {uri} :
         /\ get_document_source(runtime', v) = get_document_source(runtime, v)
         /\ get_diagnostics(runtime', v) = get_diagnostics(runtime, v)
         /\ \A salt \in {0, 1} :
              get_highlights(runtime', v, salt) = get_highlights(runtime, v, salt)

\* C7: close discards the entry of the uri and its diagnostics: afterwards
\* get_document_source(uri) is None and get_highlights(uri) and
\* get_diagnostics(uri) are empty, and the source, highlights and diagnostics of
\* every other uri are unchanged.
CloseDiscards ==
    [][/\ \A t \in Threads, uri \in Uris : Close(t, uri) => HandleClosed(uri)
       /\ \A uri \in Uris : RtClose(uri) => RuntimeClosed(uri)]_vars

\* a close of an open uri has returned and left the uri closed, while another uri
\* is open with highlights and diagnostics
ClosedOneOfTwo ==
    \E t \in Threads :
        /\ ret[t].op = "close"
        /\ ret[t].found
        /\ ~documents[ret[t].uri].some
        /\ \E v \in Uris : /\ handle_get_document_source(v).some
                          /\ handle_get_highlights(v) # <<>>
                          /\ handle_get_diagnostics(v) # <<>>

\* C9: graceful degradation: a document that fails to parse still has the
\* highlights and the diagnostics of what precedes the failure point; they are not
\* empty when the nodes parsed before the failure have some.
DegradesGracefully ==
    \A u \in Uris :
        (/\ get_document_source(runtime, u).some
         /\ ~get_document_ast(runtime, u).ok)
        => /\ CollectAll(FlatNodes(get_document_source(runtime, u).val)) # <<>>
              => get_diagnostics(runtime, u) # <<>>
           /\ highlight(ast_to_rowan(
                  DocumentNode(<<>>, FlatNodes(get_document_source(runtime, u).val)),
                  0)) # <<>>
              => get_highlights(runtime, u, 0) # <<>>

-----------------------------------------------------------------------------
(* Properties of the parser functions, under SpecFunctions *)

\* the letters of the text s from offset i
NameAt(s, i) == Slice(s, i, i + RunLen(s, i, Lower \cup Upper))

\* the \start<name> and \stop<name> marks of a text, in order
RECURSIVE MarksFrom(_, _)
MarksFrom(s, i) ==
    IF i >= Len(s) THEN <<>>
    ELSE IF StartsWithAt(s, i, StartTag) /\ NameAt(s, i + 6) # <<>>
         THEN <<[open |-> TRUE, name |-> NameAt(s, i + 6)]>>
              \o MarksFrom(s, i + 6 + Len(NameAt(s, i + 6)))
    ELSE IF StartsWithAt(s, i, StopTag) /\ NameAt(s, i + 5) # <<>>
         THEN <<[open |-> FALSE, name |-> NameAt(s, i + 5)]>>
              \o MarksFrom(s, i + 5 + Len(NameAt(s, i + 5)))
    ELSE MarksFrom(s, i + 1)

Marks(s) == MarksFrom(s, 0)

\* the marks from the k-th on are properly nested inside the open environments of
\* stack, and the outermost environment is closed by the last mark
RECURSIVE Nested(_, _, _)
Nested(marks, k, stack) ==
    IF k > Len(marks) THEN FALSE
    ELSE IF marks[k].open THEN Nested(marks, k + 1, <<marks[k].name>> \o stack)
    ELSE /\ stack # <<>>
         /\ Head(stack) = marks[k].name
         /\ IF Len(stack) = 1 THEN k = Len(marks) ELSE Nested(marks, k + 1, Tail(stack))

\* the marks of an AST node: those of its environments, nested as the nodes are
RECURSIVE MarksOf(_), MarksOfAll(_)
MarksOf(n) ==
    CASE n.type = "StartStop" ->
            <<[open |-> TRUE, name |-> n.name]>> \o MarksOfAll(n.content)
            \o <<[open |-> FALSE, name |-> n.name]>>
      [] n.type = "Command" -> MarksOfAll(n.arguments)
      [] OTHER -> <<>>

MarksOfAll(nodes) ==
    IF nodes = <<>> THEN <<>> ELSE MarksOf(Head(nodes)) \o MarksOfAll(Tail(nodes))

\* the input is \start<name> ... \stop<name> with every environment in between
\* closed before the one around it
BalancedInput ==
    /\ StartsWithAt(fn_input, 0, StartTag)
    /\ StartsWithAt(fn_input, Len(fn_input) - 1 - Len(Marks(fn_input)[1].name) - 4, StopTag)
    /\ Nested(Marks(fn_input), 1, <<>>)

\* the text has no brace and no command of the line-ending or group-scoped
\* argument styles: it is made of text, option groups, environments and commands
\* without arguments
PlainContent(s) ==
    /\ \A i \in 1..Len(s) : s[i] \notin {"{", "}", "%"}
    /\ \A i \in 1..Len(s) : s[i] = BS => ArgStyleOf(NameAt(s, i)) = "Explicit"

GroupAt(s, i) ==
    IF StartsWithAt(s, i, <<"[">>) /\ FindFrom(s, i, <<"]">>) >= 0
    THEN [some |-> TRUE, body |-> Slice(s, i + 1, FindFrom(s, i, <<"]">>)),
          end |-> FindFrom(s, i, <<"]">>) + 1]
    ELSE [some |-> FALSE, body |-> <<>>, end |-> i]

\* the input read as \name[..][..]: the name, the first group and the group after it
Written(s) ==
    [name |-> NameAt(s, 1),
     first |-> GroupAt(s, 1 + Len(NameAt(s, 1))),
     second |-> GroupAt(s, GroupAt(s, 1 + Len(NameAt(s, 1))).end)]

\* the input is \name[arg] or \name[arg][k=v,...], followed neither by a brace
\* group nor by one more bracket group
ContextStyleInput(w) ==
    /\ StartsWithAt(fn_input, 0, <<BS>>)
    /\ w.name # <<>>
    /\ w.first.some
    /\ ~StartsWithAt(fn_input, w.second.end, <<"{">>)
    /\ ~StartsWithAt(fn_input, w.second.end, <<"[">>)

\* the command C12 describes for the input read as w
ContextStyleCommand(w) ==
    /\ fn_result.ok
    /\ fn_result.rest.pos = w.second.end
    /\ fn_result.val.type = "Command"
    /\ fn_result.val.name = w.name
    /\ fn_result.val.style = "ContextStyle"
    /\ fn_result.val.arg_style = "Explicit"
    /\ Len(fn_result.val.arguments) = 1
    /\ fn_result.val.arguments[1].type = "Text"
    /\ fn_result.val.arguments[1].content = w.first.body
    /\ fn_result.val.options =
         (IF w.second.some THEN OptionPairs(w.second.body) ELSE EmptyMap)

\* C12: ConTeXt-style dispatch: on \name[arg] or \name[arg][k=v,...] not followed
\* by a brace, parse_command returns Command{name, ContextStyle, Explicit} with
\* one Text argument holding the text of the first bracket group and with the
\* options of the second group (none when it is absent), and consumes the
\* bracket groups.
ContextStyleDispatch ==
    (fn_applied = "parse_command" /\ ContextStyleInput(Written(fn_input)))
    => ContextStyleCommand(Written(fn_input))

\* parse_command has returned the ConTeXt-style command of \q[a][k=v] followed
\* by text
ContextStyleWithOptions ==
    /\ fn_applied = "parse_command"
    /\ ContextStyleInput(Written(fn_input))
    /\ fn_result.ok
    /\ fn_result.val.style = "ContextStyle"
    /\ fn_result.val.arguments[1].content = <<"a">>
    /\ DOMAIN fn_result.val.options = {<<"k">>}
    /\ fn_result.val.options[<<"k">>] = <<"v">>
    /\ fn_result.rest.pos < Len(fn_input)
\* a node without its spans
RECURSIVE Unspanned(_), UnspannedAll(_)
Unspanned(n) ==
    CASE n.type = "Command" -> [n EXCEPT !.span = <<>>, !.arguments = UnspannedAll(@)]
      [] n.type = "StartStop" -> [n EXCEPT !.span = <<>>, !.content = UnspannedAll(@)]
      [] OTHER -> [n EXCEPT !.span = <<>>]

UnspannedAll(nodes) ==
    IF nodes = <<>> THEN <<>> ELSE <<Unspanned(Head(nodes))>> \o UnspannedAll(Tail(nodes))

\* the offset of the brace that closes the group open at depth, from offset i on,
\* or -1
RECURSIVE ClosingBrace(_, _, _)
ClosingBrace(s, i, depth) ==
    IF i >= Len(s) THEN -1
    ELSE IF s[i + 1] = "{" THEN ClosingBrace(s, i + 1, depth + 1)
    ELSE IF s[i + 1] = "}"
         THEN IF depth = 1 THEN i ELSE ClosingBrace(s, i + 1, depth - 1)
    ELSE ClosingBrace(s, i + 1, depth)

\* the input read as \name[opts]{body}: [name, group, open, close], open and close
\* the offsets of the braces around the body (close is -1 without a closing brace)
WrittenTex(s, name, group) ==
    [name |-> name, group |-> group, open |-> group.end,
     close |-> ClosingBrace(s, group.end + 1, 1)]

TexWritten(s) == WrittenTex(s, NameAt(s, 1), GroupAt(s, 1 + Len(NameAt(s, 1))))

\* the nodes of a brace group's body: many0(alt(...)) of parse_explicit_args on a
\* span of its own
BodyNodes(body) == Many0("explicit", NewSpan(body))

\* the input is \name{body} or \name[opts]{body}, name outside the argument-style
\* table and body a sequence of nodes
TexStyleInput(w) ==
    /\ StartsWithAt(fn_input, 0, <<BS>>)
    /\ w.name # <<>>
    /\ ArgStyleOf(w.name) = "Explicit"
    /\ StartsWithAt(fn_input, w.open, <<"{">>)
    /\ w.close >= 0
    /\ BodyNodes(Slice(fn_input, w.open + 1, w.close)).ok
    /\ BodyNodes(Slice(fn_input, w.open + 1, w.close)).rest.pos = w.close - w.open - 1

\* the command C13 describes for the input read as w
TexStyleExplicit(w) ==
    /\ fn_result.ok
    /\ fn_result.rest.pos = w.close + 1
    /\ fn_result.val.type = "Command"
    /\ fn_result.val.name = w.name
    /\ fn_result.val.style = "TexStyle"
    /\ fn_result.val.arg_style = "Explicit"
    /\ fn_result.val.options = (IF w.group.some THEN OptionPairs(w.group.body) ELSE EmptyMap)
    /\ UnspannedAll(fn_result.val.arguments)
         = UnspannedAll(BodyNodes(Slice(fn_input, w.open + 1, w.close)).val)

\* C13: TeX-style dispatch: on \name{body} or \name[opts]{body}, name outside the
\* argument-style table, parse_command returns Command{name, TexStyle, Explicit}
\* with the options of the option group (none when it is absent) and the nodes
\* of body as arguments, and consumes the whole construct.
TexStyleDispatch ==
    (fn_applied = "parse_command" /\ TexStyleInput(TexWritten(fn_input)))
    => TexStyleExplicit(TexWritten(fn_input))
\* parse_command has returned the TeX-style command of \q[k=v]{a}
TexStyleWithOptions ==
    /\ fn_applied = "parse_command"
    /\ TexStyleInput(TexWritten(fn_input))
    /\ fn_result.ok
    /\ fn_result.val.style = "TexStyle"
    /\ DOMAIN fn_result.val.options = {<<"k">>}
    /\ fn_result.val.options[<<"k">>] = <<"v">>
    /\ Len(fn_result.val.arguments) = 1
    /\ fn_result.val.arguments[1].type = "Text"
    /\ fn_result.val.arguments[1].content = <<"a">>
    /\ fn_result.rest.pos = Len(fn_input)
\* the Command nodes of a node, itself included, in document order
RECURSIVE CommandsIn(_), CommandsInAll(_)
CommandsIn(n) ==
    CASE n.type = "Command" -> <<n>> \o CommandsInAll(n.arguments)
      [] n.type = "StartStop" -> CommandsInAll(n.content)
      [] OTHER -> <<>>

CommandsInAll(nodes) ==
    IF nodes = <<>> THEN <<>> ELSE CommandsIn(Head(nodes)) \o CommandsInAll(Tail(nodes))

\* every command of the sequence has the argument style the table gives its name
StyledByName(commands) ==
    \A i \in 1..Len(commands) : commands[i].arg_style = ArgStyleOf(commands[i].name)

\* C14: the argument style is a static property of the command name: in every
\* Command node the parser produces, arg_style is LineEnding for item, GroupScoped
\* for em, bf, it, tt, rm, sf, sc and sl, and Explicit otherwise, whatever
\* follows the name.
ArgStyleIsStatic ==
    (fn_applied # "none" /\ fn_result.ok) => StyledByName(CommandsIn(fn_result.val))
\* the rest of the line of the text s from offset i: [body, end], end past the
\* newline when there is one and the end of the text otherwise
LineFrom(s, i, nl) ==
    IF nl < 0 THEN [body |-> Slice(s, i, Len(s)), end |-> Len(s)]
    ELSE [body |-> Slice(s, i, nl), end |-> nl + 1]

LineAt(s, i) == LineFrom(s, i, FindFrom(s, i, <<NL>>))

\* the command C15 describes for \item, the option group w.first and the line
\* after it
ItemCommand(w, line) ==
    /\ fn_result.ok
    /\ fn_result.rest.pos = line.end
    /\ fn_result.val.type = "Command"
    /\ fn_result.val.arg_style = "LineEnding"
    /\ fn_result.val.options = (IF w.first.some THEN OptionPairs(w.first.body) ELSE EmptyMap)
    /\ Len(fn_result.val.arguments) = 1
    /\ fn_result.val.arguments[1].type = "Text"
    /\ fn_result.val.arguments[1].content = Trim(line.body)

\* C15: line-ending argument: on \item, parse_command consumes an optional option
\* group and takes the text up to the next newline, or up to the end of the input
\* when no newline follows, as the sole Text argument (trimmed); it succeeds in
\* both cases with arg_style LineEnding.
LineEndingArgument ==
    (/\ fn_applied = "parse_command"
     /\ StartsWithAt(fn_input, 0, <<BS>>)
     /\ NameAt(fn_input, 1) = <<"i","t","e","m">>)
    => ItemCommand(Written(fn_input), LineAt(fn_input, Written(fn_input).first.end))

-----------------------------------------------------------------------------
(* Properties of parse_options, under SpecOptions *)

\* the value a typed pair stands for
ValueOf(pair) == IF pair.bare THEN <<"t","r","u","e">> ELSE pair.value

\* the last of the typed pairs that has the key
LastWith(pairs, key) ==
    pairs[GreatestOr({i \in 1..Len(pairs) : pairs[i].key = key}, 0)]

\* C16: option normalization: parse_options on [p1,p2,...] splits on "," and each
\* pair on its first "=", trims the key and the value, gives a bare key the value
\* "true" and keeps, for a key that occurs more than once, the value of its last
\* occurrence: the result has one entry per distinct key.
OptionNormalization ==
    (fn_applied = "parse_options" /\ fn_typed # <<>>)
    => /\ fn_result.ok
       /\ fn_result.rest.pos = Len(fn_input) + 2
       /\ DOMAIN fn_result.val = {fn_typed[i].key : i \in 1..Len(fn_typed)}
       /\ \A key \in DOMAIN fn_result.val :
            fn_result.val[key] = ValueOf(LastWith(fn_typed, key))

\* parse_options has returned the options of a list with blanks in which a key
\* occurs first with a value that holds "=" and last as a bare key, another key
\* in between
DuplicateKeyParsed ==
    /\ fn_applied = "parse_options"
    /\ fn_result.ok
    /\ Len(fn_typed) = 3
    /\ Contains(fn_input, <<" ">>)
    /\ fn_typed[1].key = fn_typed[3].key
    /\ fn_typed[2].key # fn_typed[1].key
    /\ ~fn_typed[1].bare /\ fn_typed[1].value = <<"w","=","v">>
    /\ fn_typed[3].bare
    /\ Cardinality(DOMAIN fn_result.val) = 2
    /\ fn_result.val[fn_typed[3].key] = <<"t","r","u","e">>

-----------------------------------------------------------------------------
(* Properties of the spans of a parsed document, under SpecParse *)

\* the children of a node: the arguments of a command, the content of an
\* environment
ChildrenOf(n) ==
    CASE n.type = "Command" -> n.arguments
      [] n.type = "StartStop" -> n.content
      [] OTHER -> <<>>

\* the span of the node is well formed and contains the span of every node below
RECURSIVE SpansNest(_)
SpansNest(n) ==
    /\ n.span.start <= n.span.end
    /\ \A i \in 1..Len(ChildrenOf(n)) :
         /\ ChildrenOf(n)[i].span.start >= n.span.start
         /\ ChildrenOf(n)[i].span.end <= n.span.end
         /\ SpansNest(ChildrenOf(n)[i])

\* C17: span containment: in a parsed AST the span of every child (an argument of
\* a command, a content node of an environment) lies within the span of its
\* parent, and every span has start <= end.
SpanContainment ==
    (stage # "input" /\ ast.ok)
    => \A i \in 1..Len(ast.val.preamble \o ast.val.body) :
         SpansNest((ast.val.preamble \o ast.val.body)[i])

\* a document has parsed to an environment that ends after the command it holds,
\* whose argument starts after the command does
ArgumentInsideCommand ==
    /\ stage = "parsed"
    /\ Len(ast.val.body) = 1
    /\ ast.val.body[1].type = "StartStop"
    /\ Len(ast.val.body[1].content) = 1
    /\ ast.val.body[1].content[1].type = "Command"
    /\ Len(ast.val.body[1].content[1].arguments) = 1
    /\ ast.val.body[1].content[1].arguments[1].span.start
         > ast.val.body[1].content[1].span.start
    /\ ast.val.body[1].content[1].span.end < ast.val.body[1].span.end

\* the spans of consecutive nodes of the sequence do not overlap and follow one
\* another from left to right, and so do those of the nodes below them
RECURSIVE SpansOrdered(_)
SpansOrdered(nodes) ==
    /\ \A i \in 1..(Len(nodes) - 1) : nodes[i].span.end <= nodes[i + 1].span.start
    /\ \A i \in 1..Len(nodes) : SpansOrdered(ChildrenOf(nodes[i]))

\* C18: sibling span ordering: for two consecutive entries of the preamble, of
\* the body, of the content of an environment or of the arguments of a command,
\* the span of the earlier one ends at or before the start of the later one.
SiblingOrdering ==
    (stage # "input" /\ ast.ok)
    => /\ SpansOrdered(ast.val.preamble)
       /\ SpansOrdered(ast.val.body)

-----------------------------------------------------------------------------
(* Properties of the highlights of a document, under SpecParse *)

\* the texts of the elements highlight_node classifies, in the order of their
\* highlights: the first token of each classified node
RECURSIVE ElementTexts(_), ElementTextsAll(_)
ElementTexts(n) ==
    (IF HighlightKindOf(n.kind) # "" /\ FirstToken(n).some
     THEN <<FirstToken(n).text>>
     ELSE <<>>)
    \o ElementTextsAll(n.children)

ElementTextsAll(es) ==
    IF es = <<>> THEN <<>>
    ELSE (IF Head(es).node THEN ElementTexts(Head(es)) ELSE <<>>)
         \o ElementTextsAll(Tail(es))

\* the range of the highlight h lies in the source and holds the text element
RangeHolds(source, h, element) ==
    /\ 0 <= h.range.start
    /\ h.range.start <= h.range.end
    /\ h.range.end <= Len(source)
    /\ Slice(source, h.range.start, h.range.end) = element

\* C19: highlight ranges index the stored source: every highlight {range, kind}
\* of a document has 0 <= range.start <= range.end <= len(source), and
\* source[range.start..range.end] is the text of the element it classifies.
HighlightsIndexSource ==
    stage = "done"
    => \A i \in 1..Len(hls) : RangeHolds(text, hls[i], ElementTexts(tree)[i])

-----------------------------------------------------------------------------
(* Properties of the diagnostics of a Runtime, under SpecRuntime *)

\* a Warning among the diagnostics whose message holds the name
WarnsAbout(diagnostics, name) ==
    \E i \in 1..Len(diagnostics) :
        /\ diagnostics[i].severity = "Warning"
        /\ Contains(diagnostics[i].message, name)

\* C20: unknown-command diagnostic: after open_document on a text that contains
\* \unknowncommand, get_diagnostics returns at least one Warning whose message
\* contains "unknowncommand".
UnknownCommandDiagnosed ==
    \A u \in Uris :
        (/\ get_document_source(runtime, u).some
         /\ Contains(get_document_source(runtime, u).val, UnknownCommand))
        => WarnsAbout(get_diagnostics(runtime, u), Tail(UnknownCommand))

\* the messages C21 asks for: one for every Command and every StartStop node whose
\* name is not known, wherever the node is, in document order
RECURSIVE UnknownNames(_), UnknownNamesAll(_)
UnknownNames(n) ==
    CASE n.type = "Command" ->
            (IF n.name \in KnownCommands THEN <<>>
             ELSE <<UnknownCommandPrefix \o n.name>>)
            \o UnknownNamesAll(n.arguments)
      [] n.type = "StartStop" ->
            (IF n.name \in KnownEnvironments THEN <<>>
             ELSE <<UnknownEnvironmentPrefix \o n.name>>)
            \o UnknownNamesAll(n.content)
      [] n.type = "Document" -> UnknownNamesAll(n.preamble \o n.body)
      [] OTHER -> <<>>

UnknownNamesAll(nodes) ==
    IF nodes = <<>> THEN <<>>
    ELSE UnknownNames(Head(nodes)) \o UnknownNamesAll(Tail(nodes))

\* the diagnostics are Warnings with the messages, one for one and in order
WarningsAre(diagnostics, messages) ==
    /\ Len(diagnostics) = Len(messages)
    /\ \A i \in 1..Len(diagnostics) :
         /\ diagnostics[i].severity = "Warning"
         /\ diagnostics[i].message = messages[i]

\* C21: the diagnostics traversal is complete: for every Command and every
\* StartStop node of the AST, at any depth (inside the arguments of a command and
\* inside an environment that was itself reported included), exactly one Warning
\* is emitted when its name is not known, and none when it is.
TraversalComplete ==
    \A u \in Uris :
        get_document_ast(runtime, u).ok
        => WarningsAre(get_diagnostics(runtime, u),
                       UnknownNames(get_document_ast(runtime, u).val))

\* the elements of a sequence
Elements(seq) == {seq[i] : i \in 1..Len(seq)}

\* C22: diagnostics are produced fresh on every document update: after every
\* open_document or update_document(uri, content), get_diagnostics(uri) is exactly
\* the diagnostics derived from content, and no diagnostic of an earlier
\* compilation remains.
FreshDiagnostics ==
    \A u \in Uris :
        (rt_ret.op \in {"open_document", "update_document"} /\ rt_ret.uri = u)
        => /\ get_diagnostics(runtime, u)
                = ParseDiagnostics(parse_document(rt_last[u].val))
           /\ \A d \in Elements(get_diagnostics(runtime, u)) : d.source = "parser"

\* an update of a document that had a warning of its own and an error of a
\* compilation, to a content with another warning
UpdatedAfterCompilation ==
    /\ rt_ret.op = "update_document"
    /\ \E d \in Elements(rt_ret.before) : d.source = "compiler"
    /\ \E d \in Elements(rt_ret.before) :
          /\ d.source = "parser"
          /\ d \notin Elements(get_diagnostics(runtime, rt_ret.uri))
    /\ get_diagnostics(runtime, rt_ret.uri) # <<>>

\* C23: a no-op update is idempotent: updating an open uri with the text it
\* already has keeps get_document_source unchanged and yields an AST, highlights
\* and diagnostics equal to those before the update.
NoOpUpdateIdempotent ==
    [][\A u \in Uris, content \in RuntimeDocs :
          (RtUpdate(u, content) /\ get_document_source(runtime, u) = Some(content))
          => /\ get_document_source(runtime', u) = get_document_source(runtime, u)
             /\ get_document_ast(runtime', u) = get_document_ast(runtime, u)
             /\ \A before, after \in {0, 1} :
                   get_highlights(runtime', u, after) = get_highlights(runtime, u, before)
             /\ get_diagnostics(runtime', u) = get_diagnostics(runtime, u)]_vars

\* the kinds of highlight the rule table of C24 gives the nodes of an AST, in
\* document order: one for a command, one for its option group, one for an
\* environment and its option group, one for a text run, one for a comment
RECURSIVE RuleTable(_), RuleTableAll(_)
RuleTable(n) ==
    CASE n.type = "Command" ->
            <<"Command">> \o (IF DOMAIN n.options = {} THEN <<>> ELSE <<"Option">>)
            \o RuleTableAll(n.arguments)
      [] n.type = "StartStop" ->
            <<"Environment">> \o (IF DOMAIN n.options = {} THEN <<>> ELSE <<"Option">>)
            \o RuleTableAll(n.content)
      [] n.type = "Text" -> <<"Text">>
      [] n.type = "Comment" -> <<"Comment">>
      [] n.type = "Document" -> RuleTableAll(n.preamble \o n.body)
      [] OTHER -> <<>>

RuleTableAll(nodes) ==
    IF nodes = <<>> THEN <<>>
    ELSE RuleTable(Head(nodes)) \o RuleTableAll(Tail(nodes))

\* C24: the highlighter rule table: highlight emits exactly one highlight for
\* each command (kind Command), each environment (kind Environment), each option
\* group (kind Option), each text run (kind Text) and each comment (kind Comment)
\* of the document, and none for any other node.
HighlighterRuleTable ==
    stage = "done"
    => [i \in 1..Len(hls) |-> hls[i].kind] = RuleTable(ast.val)

\* C25: highlight ordering: the sequence returned by highlight is in document
\* order (range.start never decreases along it), and the highlights of sibling
\* nodes never overlap.  A highlight is the range of the first token of its
\* node, so no two highlights overlap at all, siblings or not.
HighlightOrdering ==
    stage = "done"
    => \A i, j \in 1..Len(hls) :
          i < j => /\ hls[i].range.start <= hls[j].range.start
                   /\ hls[i].range.end <= hls[j].range.start

\* two sibling commands with an argument between their names
OrderedHighlights ==
    /\ stage = "done"
    /\ Len(hls) = 2
    /\ hls[1].kind = "Command" /\ hls[2].kind = "Command"
    /\ hls[1].range.end > hls[1].range.start
    /\ hls[2].range.start > hls[1].range.end

\* C26: every AsyncCompilationFuture returned by compile_async eventually becomes
\* ready (is_ready() is true and poll_result() returns a result), also when
\* cancel() is called at any point, before the spawned task has started
\* included, provided the compilation backend terminates.
EventuallyReady ==
    future.made ~> (is_ready(future) /\ poll_result(future).some)

\* C27: poll_result() returns None whenever is_ready() is false and the
\* compilation result whenever is_ready() is true; once is_ready() has been true
\* it stays true and the result poll_result() returns never changes.
PollFollowsReady ==
    /\ future.made =>
          /\ ~is_ready(future) => poll_result(future) = None
          /\ is_ready(future) =>
                (poll_result(future).some /\ poll_result(future) = ffi_result)
    /\ \A i \in 1..Len(polled) :
          /\ ~polled[i].ready => polled[i].result = None
          /\ polled[i].ready =>
                /\ polled[i].result.some
                /\ \A j \in i..Len(polled) : polled[j] = polled[i]
                /\ is_ready(future) /\ poll_result(future) = polled[i].result

\* the caller polled before and after the task stored the result of a cancelled
\* compilation, and once more
PolledCancelledResult ==
    /\ Len(polled) = 3
    /\ ~polled[1].ready
    /\ polled[2].ready /\ polled[3].ready
    /\ polled[3].result = Some(CompileResultFfiError("Compilation cancelled"))
    /\ future.cancelled

\* the nodes of the body of a group-scoped brace group: many0(alt(...)) of
\* parse_group_scoped_args on a span of its own
GroupNodes(body) == Many0("group", NewSpan(body))

\* the input is \name{body}rest, name a group-scoped command and body a sequence
\* of nodes
GroupScopedInput(w) ==
    /\ StartsWithAt(fn_input, 0, <<BS>>)
    /\ w.name # <<>>
    /\ ArgStyleOf(w.name) = "GroupScoped"
    /\ ~w.group.some
    /\ StartsWithAt(fn_input, w.open, <<"{">>)
    /\ w.close >= 0
    /\ GroupNodes(Slice(fn_input, w.open + 1, w.close)).ok
    /\ GroupNodes(Slice(fn_input, w.open + 1, w.close)).rest.pos = w.close - w.open - 1

\* the command C28 describes for the input read as w
GroupScopedCommand(w) ==
    /\ fn_result.ok
    /\ fn_result.rest.pos = w.close + 1
    /\ fn_result.val.type = "Command"
    /\ fn_result.val.name = w.name
    /\ fn_result.val.style = "TexStyle"
    /\ fn_result.val.arg_style = "GroupScoped"
    /\ fn_result.val.options = EmptyMap
    /\ UnspannedAll(fn_result.val.arguments)
         = UnspannedAll(GroupNodes(Slice(fn_input, w.open + 1, w.close)).val)
    /\ PlainContent(Slice(fn_input, w.open + 1, w.close)) /\ w.close > w.open + 1
       /\ BS \notin Elements(Slice(fn_input, w.open + 1, w.close))
       => /\ Len(fn_result.val.arguments) = 1
          /\ fn_result.val.arguments[1].type = "Text"
          /\ fn_result.val.arguments[1].content = Slice(fn_input, w.open + 1, w.close)

\* C28: on a group-scoped command (\bf) immediately followed by a brace group,
\* parse_command returns Command{TexStyle, GroupScoped, no options} whose
\* arguments are the nodes parsed from the brace group, and leaves the text
\* after the closing brace unconsumed.
GroupScopedBraceGroup ==
    (fn_applied = "parse_command" /\ GroupScopedInput(TexWritten(fn_input)))
    => GroupScopedCommand(TexWritten(fn_input))

\* parse_command has returned the command of \bf{a} and left text behind it
GroupScopedWithRest ==
    /\ fn_applied = "parse_command"
    /\ GroupScopedInput(TexWritten(fn_input))
    /\ fn_result.ok
    /\ Len(fn_result.val.arguments) = 1
    /\ fn_result.val.arguments[1].type = "Text"
    /\ fn_result.rest.pos < Len(fn_input)

LockOnlyForSwap ==
    \A t \in Threads :
        /\ step[t] = "parsing" => (t \notin lock.readers /\ lock.writer # t)
        /\ t \in lock.readers => step[t] = "reading"
        /\ lock.writer = t => step[t] = "writing"

\* a thread parses for an update of one uri while another holds the write lock
\* to store another uri
ParsingBesideWriter ==
    \E t, other \in Threads :
        /\ step[t] = "parsing" /\ doing[t].op = "update"
        /\ step[other] = "writing" /\ doing[other].op = "open"
        /\ doing[other].uri # doing[t].uri

\* the input read as \name{body}[opts]: [name, open, close, group], open and close
\* the offsets of the braces, group the option group after the closing brace
WrittenAfter(s, name, close) ==
    [name |-> name, open |-> 1 + Len(name), close |-> close,
     group |-> IF close >= 0 THEN GroupAt(s, close + 1)
               ELSE [some |-> FALSE, body |-> <<>>, end |-> 0]]

OptionsAfterWritten(s) ==
    WrittenAfter(s, NameAt(s, 1), ClosingBrace(s, 2 + Len(NameAt(s, 1)), 1))

\* the input is \name{body}[opts], name outside the argument-style table and body
\* a sequence of nodes
OptionsAfterInput(w) ==
    /\ StartsWithAt(fn_input, 0, <<BS>>)
    /\ w.name # <<>>
    /\ ArgStyleOf(w.name) = "Explicit"
    /\ StartsWithAt(fn_input, w.open, <<"{">>)
    /\ w.close >= 0
    /\ w.group.some
    /\ BodyNodes(Slice(fn_input, w.open + 1, w.close)).ok
    /\ BodyNodes(Slice(fn_input, w.open + 1, w.close)).rest.pos = w.close - w.open - 1

RECURSIVE BackslashFrom(_, _)
BackslashFrom(s, i) ==
    IF i >= Len(s) \/ s[i + 1] = BS THEN i ELSE BackslashFrom(s, i + 1)

\* characters that are text inside a group
PlainText(s) == \A i \in 1..Len(s) : s[i] \notin {BS, "{", "}", "%", "[", "]"}

\* the input read as \name{pre\gs rest}: the offsets of the braces and of the
\* backslash of gs
WrittenAbsorbing(s, name, close) ==
    [name |-> name, open |-> 1 + Len(name), close |-> close,
     at |-> BackslashFrom(s, 2 + Len(name))]

AbsorbingWritten(s) ==
    WrittenAbsorbing(s, NameAt(s, 1), ClosingBrace(s, 2 + Len(NameAt(s, 1)), 1))

\* the name of the group-scoped command and the text after it, up to the brace
ScopedName(w) == NameAt(fn_input, w.at + 1)
ScopedRest(w) == Slice(fn_input, w.at + 1 + Len(ScopedName(w)), w.close)

\* the input is \name{pre\gs rest}: name outside the argument-style table, gs a
\* group-scoped command, pre and rest text
AbsorbingInput(w) ==
    /\ StartsWithAt(fn_input, 0, <<BS>>)
    /\ w.name # <<>>
    /\ ArgStyleOf(w.name) = "Explicit"
    /\ StartsWithAt(fn_input, w.open, <<"{">>)
    /\ w.close >= 0 /\ w.at < w.close
    /\ PlainText(Slice(fn_input, w.open + 1, w.at))
    /\ ScopedName(w) # <<>>
    /\ ArgStyleOf(ScopedName(w)) = "GroupScoped"
    /\ PlainText(ScopedRest(w))

\* the last argument is the group-scoped command, holding the rest of the group
Absorbed(w, arguments) ==
    /\ arguments # <<>>
    /\ arguments[Len(arguments)].type = "Command"
    /\ arguments[Len(arguments)].name = ScopedName(w)
    /\ arguments[Len(arguments)].arg_style = "GroupScoped"
    /\ IF ScopedRest(w) = <<>> THEN arguments[Len(arguments)].arguments = <<>>
       ELSE /\ Len(arguments[Len(arguments)].arguments) = 1
            /\ arguments[Len(arguments)].arguments[1].type = "Text"
            /\ arguments[Len(arguments)].arguments[1].content = ScopedRest(w)

RECURSIVE NewlinesBefore(_, _)
NewlinesBefore(s, i) ==
    IF i <= 0 THEN 0 ELSE (IF s[i] = NL THEN 1 ELSE 0) + NewlinesBefore(s, i - 1)

RECURSIVE LineStartBefore(_, _)
LineStartBefore(s, i) ==
    IF i <= 0 THEN 0 ELSE IF s[i] = NL THEN i ELSE LineStartBefore(s, i - 1)

\* what the source of a node begins with
SourceHead(n) ==
    CASE n.type = "Command" -> <<BS>> \o n.name
      [] n.type = "StartStop" -> StartTag \o n.name
      [] n.type = "Comment" -> <<"%">>
      [] n.type = "Text" -> n.content
      [] OTHER -> <<>>

\* the span of n starts where the source of n begins in s, at the line and
\* column of that offset
PositionedIn(s, n) ==
    /\ n.span.start <= Len(s)
    /\ StartsWithAt(s, n.span.start, SourceHead(n))
    /\ n.span.start_line = 1 + NewlinesBefore(s, n.span.start)
    /\ n.span.start_col = 1 + n.span.start - LineStartBefore(s, n.span.start)

RECURSIVE AllPositionedIn(_, _)
AllPositionedIn(s, nodes) ==
    \A i \in 1..Len(nodes) :
        /\ PositionedIn(s, nodes[i])
        /\ AllPositionedIn(s, ChildrenOf(nodes[i]))

CoherentEntries ==
    \A u \in Uris :
        documents[u].some
        => /\ documents[u].val.uri = u
           /\ documents[u].val.diagnostics
                = DiagnosticsFfi(ParseDiagnostics(parse_document(documents[u].val.content)))
           /\ \E salt \in {0, 1} :
                documents[u].val.highlights
                  = HighlightsFfi(HighlightsOf(parse_document(documents[u].val.content),
                                               salt))

\* an entry that an update gave two commands, with their highlights and warnings
UpdatedEntryCoherent ==
    \E u \in Uris, t \in Threads :
        /\ documents[u].some
        /\ ret[t].op = "update" /\ ret[t].uri = u /\ ret[t].value
        /\ Len(documents[u].val.highlights) = 2
        /\ Len(documents[u].val.diagnostics) = 2

\* the calls on uri since no call was running on it are opens and updates only
OnlyOpensAndUpdates(u) ==
    /\ batch[u] # <<>>
    /\ \A i \in 1..Len(batch[u]) : batch[u][i].op \in {"open", "update"}

\* C35: notifications agree with the stored state: under any interleaving of
\* concurrent open and update calls on one uri, once all calls have returned the
\* last on_highlights_updated and the last on_diagnostics_updated delivered for
\* the uri carry the highlights and diagnostics stored for it.
NotificationsAgree ==
    \A u \in Uris :
        (/\ ~InFlight(u)
         /\ OnlyOpensAndUpdates(u)
         /\ documents[u].some
         /\ notified[u].highlights.some /\ notified[u].diagnostics.some)
        => /\ notified[u].highlights.val = documents[u].val.highlights
           /\ notified[u].diagnostics.val = documents[u].val.diagnostics

\* C36: update reports success only for an update that was stored: whenever
\* update returns true and delivers its notifications, the session entry of the
\* uri held the updated content at the write step of the update, also when
\* close(uri) runs between the read phase and the write phase.  Every update
\* that takes its write step goes on to notify and to return true.
UpdateTrueOnlyIfStored ==
    [][\A t \in Threads :
          UpdateWrite(t)
          => /\ documents'[call[t].uri].some
             /\ documents'[call[t].uri].val.content = call[t].content]_vars

\* the on_compilation_completed deliveries of job j
CompletionsOf(j) == {i \in 1..Len(completions) : completions[i].job = j}

\* what C37 says of job j in one state
JobRegistered(j) ==
    /\ (job[j].at = "spawned" /\ j \notin withdrawn) => j \in get_active_jobs
    /\ job[j].at \in {"removed", "done"} => j \notin get_active_jobs
    /\ Cardinality(CompletionsOf(j)) = (IF job[j].at = "done" THEN 1 ELSE 0)
    /\ \A i \in CompletionsOf(j) : completions[i].uri = job[j].uri
    /\ job[j].at = "rejected"
       => (j \notin get_active_jobs /\ UpdateError(job[j].uri) \in Elements(errors))

CancellationEffective ==
    /\ [][\A j \in JobIds :
            CancelCompilation(j)
            => /\ cancel_ret'.value = (j \in get_active_jobs)
               /\ j \notin active_jobs']_vars
    /\ [](\A j \in withdrawn : CompletionsOf(j) = {})

\* the diagnostics of a sequence that have the given source, in their order
FromSource(diagnostics, source) ==
    SelectSeq(diagnostics, LAMBDA d : d.source = source)

\* C39: compile_document(uri) changes only the compiler-sourced diagnostics of
\* uri: after it returns Ok the diagnostics of uri with source "parser" are the
\* same as before, those with source "compiler" are exactly the errors and
\* warnings of this compilation (earlier ones are replaced), and the diagnostics
\* of other uris and all stored sources are unchanged; for a uri that is not
\* open it returns an error and changes no state.
CompileChangesCompilerDiagnostics ==
    [][\A uri \in Uris, outcome \in CompilerOutcomes :
          RtCompile(uri, outcome)
          => /\ compile_document(runtime, uri, outcome).result.ok
                => /\ FromSource(get_diagnostics(runtime', uri), "parser")
                        = FromSource(get_diagnostics(runtime, uri), "parser")
                   /\ FromSource(get_diagnostics(runtime', uri), "compiler")
                        = CompilerDiagnostics(outcome.val)
                   /\ \A d \in Elements(get_diagnostics(runtime', uri)) :
                         d.source \in {"parser", "compiler"}
                   /\ \A v \in Uris \ {uri} :
                         runtime'.diagnostics[v] = runtime.diagnostics[v]
                   /\ runtime'.documents = runtime.documents
             /\ ~get_document_source(runtime, uri).some
                => /\ ~compile_document(runtime, uri, outcome).result.ok
                   /\ runtime' = runtime]_vars

\* a second compilation of a document that has a warning of its own: the
\* diagnostic of the first compilation is gone, the parser's is still there
\* and the new compilation's is stored
CompiledAgain ==
    /\ rt_ret.op = "compile_document"
    /\ \E d \in Elements(rt_ret.before) :
          /\ d.source = "compiler"
          /\ d \notin Elements(get_diagnostics(runtime, rt_ret.uri))
    /\ \E d \in Elements(rt_ret.before) :
          /\ d.source = "parser"
          /\ d \in Elements(get_diagnostics(runtime, rt_ret.uri))
    /\ \E d \in Elements(get_diagnostics(runtime, rt_ret.uri)) :
          d.source = "compiler" /\ d \notin Elements(rt_ret.before)

\* many0(parse_node) on the text s leaves nothing of it unparsed
ParsedToEnd(s) == Frag(Many0("node", NewSpan(s)).rest) = <<>>

\* the text before the start marker m of the text s, and the text after it
PreambleText(s, m) == IF m.found THEN Slice(s, 0, m.at) ELSE <<>>

AfterStartMarker(s, m) == IF m.found THEN Slice(s, m.at + m.len, Len(s)) ELSE s

\* the text between the start marker and the end marker, where t is the text
\* after the start marker
BodyText(t) == Frag(parse_until(NewSpan(t), EndMarkerFor(t)).val)

\* the body of an input that starts with \startdocument
DocumentBodyText(s) ==
    Frag(parse_until(Adv(NewSpan(s), Len(StartDocumentTag)), StopDocumentTag).val)

\* C40: a successful parse accounts for the whole document: whenever
\* parse_document(text) returns Ok, the preamble nodes cover all text before the
\* start marker and the body nodes cover all text between the start marker and
\* the end marker; no suffix of the preamble or of the body is dropped.
WholeDocumentParsed ==
    (stage # "input" /\ ast.ok)
    => IF tag(StartDocumentTag, NewSpan(text)).ok
       THEN ParsedToEnd(DocumentBodyText(text))
       ELSE /\ ParsedToEnd(PreambleText(text, FindStarter(text)))
            /\ ParsedToEnd(BodyText(AfterStartMarker(text, FindStarter(text))))

=============================================================================
